--------------------------- MODULE LineRepl_proofs ---------------------------
(***************************************************************************)
(* For a queue of any length and any number of sessions and changes: the    *)
(* front ends have one writer of a conversation at a time, and the program  *)
(* does not exit with an unsaved transcript, unless a write failed or the   *)
(* wait for the goroutine was given up.                                    *)
(***************************************************************************)
EXTENDS LineRepl, TLAPS

States == {"none", "queued", "running", "asking", "waiting", "done", "dropped"}
WorkKinds == {"turn", "compact"} \cup LineKinds
WorkRecords == [state : States, kind : WorkKinds, cancelled : BOOLEAN,
           err : {"nil", "canceled", "other"}]

FrontTypes ==
    /\ overlay \in {"none", "quit"} \cup Questions
    /\ busy \in BOOLEAN /\ queue \in 0..MaxQueued
    /\ work \in WorkRecords
    /\ reply \in BOOLEAN /\ closed \in BOOLEAN /\ signalled \in BOOLEAN
    /\ program \in {"running", "quitting", "stopped", "waiting", "exited", "killed"}
    /\ agent \in [sid : Sessions, version : 0..clock]
    /\ disk \in [Sessions -> 0..clock \cup {Torn}]
    /\ clock \in 0..MaxChanges /\ lost \in BOOLEAN
    /\ line \in {"tui", "prompt", "turn", "once"}

BusyShape ==
    /\ Active => busy
    /\ queue > 0 => busy \/ program # "running"

\* The line REPL reads a prompt only when nothing is at work, and has no queue; a single
\* prompt is a turn.
LineShape ==
    /\ line = "prompt" => ~busy
    /\ line = "once" => work.kind = "turn"
    /\ line # "tui" => queue = 0

IsSaved == agent.version = 0 \/ disk[agent.sid] = agent.version

\* After the exit only a goroutine that was given up is left to write.
ExitShape == program = "exited" => lost \/ (~Active /\ IsSaved)

FrontInv == FrontTypes /\ BusyShape /\ LineShape /\ ExitShape

LEMMA InitFrontInv == LineInit => FrontInv
<1> SUFFICES ASSUME LineInit PROVE FrontInv
  OBVIOUS
<1> USE TuiAssumption DEF LineInit, Init
<1>1. NoWork \in WorkRecords /\ NoWork.state = "none" /\ NoWork.kind = "turn"
  BY DEF NoWork, WorkRecords, States, WorkKinds
<1>4. 0 \in 0..0 /\ 1 \in Sessions /\ 0 \in 0..MaxQueued /\ 0 \in 0..MaxChanges
  BY DEF Sessions
<1>5. agent \in [sid : Sessions, version : 0..clock] /\ disk \in [Sessions -> 0..clock \cup {Torn}]
  BY <1>4
<1>2. FrontTypes
  BY <1>1, <1>4, <1>5 DEF FrontTypes
<1>3. BusyShape /\ LineShape /\ ExitShape
  BY <1>1 DEF BusyShape, LineShape, ExitShape, Active
<1> QED
  BY <1>2, <1>3 DEF FrontInv

\* The values of work.
LEMMA NewWork ==
  ASSUME NEW kind \in WorkKinds
  PROVE  Queued(kind) \in WorkRecords /\ Queued(kind).state = "queued" /\ Queued(kind).kind = kind
BY DEF Queued, NoWork, WorkRecords, States, WorkKinds

LEMMA MovedWork ==
  ASSUME work \in WorkRecords, NEW s \in States, NEW e \in {"nil", "canceled", "other"}
  PROVE  /\ [work EXCEPT !.state = s] \in WorkRecords
         /\ [work EXCEPT !.state = s].state = s
         /\ [work EXCEPT !.state = s].kind = work.kind
         /\ [work EXCEPT !.state = s, !.err = e] \in WorkRecords
         /\ [work EXCEPT !.state = s, !.err = e].state = s
         /\ [work EXCEPT !.state = s, !.err = e].kind = work.kind
BY DEF WorkRecords

LEMMA CancelledWork ==
  ASSUME FrontInv
  PROVE  Cancelled \in WorkRecords /\ Cancelled.state = work.state /\ Cancelled.kind = work.kind
<1>1. work \in WorkRecords
  BY DEF FrontInv, FrontTypes
<1>2. \A b \in BOOLEAN : /\ [work EXCEPT !.cancelled = b] \in WorkRecords
                         /\ [work EXCEPT !.cancelled = b].state = work.state
                         /\ [work EXCEPT !.cancelled = b].kind = work.kind
  BY <1>1 DEF WorkRecords
<1>3. (work.cancelled \/ (busy /\ work.kind = "turn")) \in BOOLEAN
  OBVIOUS
<1>4. Cancelled = [work EXCEPT !.cancelled = (work.cancelled \/ (busy /\ work.kind = "turn"))]
  BY DEF Cancelled
<1> QED
  BY <1>2, <1>3, <1>4

\* A save that is not torn leaves the transcript of the agent in its file.
LEMMA SavedShape ==
  ASSUME FrontInv, NEW v \in 0..clock \cup {Torn}, Saved(v)
  PROVE  /\ disk' \in [Sessions -> 0..clock \cup {Torn}] /\ lost' \in BOOLEAN
         /\ v = agent.version => disk'[agent.sid] = agent.version
BY DEF FrontInv, FrontTypes, Saved

LEMMA PersistShape ==
  ASSUME FrontInv, Persists \/ PersistFails
  PROVE  /\ disk' \in [Sessions -> 0..clock \cup {Torn}] /\ lost' \in BOOLEAN
         /\ ~Active => lost' \/ agent.version = 0 \/ disk'[agent.sid] = agent.version
<1>1. agent.version \in 0..clock
  BY DEF FrontInv, FrontTypes
<1>2. CASE UNCHANGED disk /\ lost' \in BOOLEAN /\ (agent.version = 0 \/ lost')
  BY <1>2 DEF FrontInv, FrontTypes
<1>3. CASE \E v \in Written : Saved(v)
  <2>1. PICK v \in Written : Saved(v)
    BY <1>3
  <2>2. v \in 0..clock \cup {Torn} /\ (~Active => v = agent.version)
    BY <2>1, <1>1 DEF Written
  <2> QED
    BY <2>1, <2>2, SavedShape
<1>4. lost \in BOOLEAN
  BY DEF FrontInv, FrontTypes
<1> QED
  BY <1>2, <1>3, <1>4 DEF Persists, PersistFails

\* Most steps leave the conversation and its file alone.
LEMMA QuietTypes ==
  ASSUME FrontInv, UNCHANGED <<agent, disk, clock, lost>>,
         overlay' \in {"none", "quit"} \cup Questions,
         busy' \in BOOLEAN, queue' \in 0..MaxQueued, work' \in WorkRecords, reply' \in BOOLEAN,
         closed' \in BOOLEAN, signalled' \in BOOLEAN,
         program' \in {"running", "quitting", "stopped", "waiting", "exited", "killed"},
         line' \in {"tui", "prompt", "turn", "once"}
  PROVE  FrontTypes'
BY DEF FrontInv, FrontTypes

\* A change of the transcript.
LEMMA ChangedShape ==
  ASSUME FrontInv, Changed
  PROVE  /\ clock' \in 0..MaxChanges /\ agent' \in [sid : Sessions, version : 0..clock']
         /\ agent'.sid = agent.sid
         /\ [Sessions -> 0..clock \cup {Torn}] \subseteq [Sessions -> 0..clock' \cup {Torn}]
<1>1. clock \in Nat /\ clock < MaxChanges /\ clock' = clock + 1 /\ agent' = [agent EXCEPT !.version = clock']
      /\ agent \in [sid : Sessions, version : 0..clock] /\ MaxChanges \in Nat
  BY TuiAssumption DEF FrontInv, FrontTypes, Changed
<1>2. clock' \in 0..MaxChanges /\ clock' \in 0..clock'
  BY <1>1
<1>3. agent' \in [sid : Sessions, version : 0..clock'] /\ agent'.sid = agent.sid
  BY <1>1, <1>2
<1>4. 0..clock \cup {Torn} \subseteq 0..clock' \cup {Torn}
  BY <1>1
<1> QED
  BY <1>2, <1>3, <1>4

(***************************************************************************)
(* The goroutine and its messages.                                         *)
(***************************************************************************)

\* Its step moves it on from where it is at work, and changes nothing of the event loop.
LEMMA WorkShape ==
  ASSUME FrontInv, WorkStep \/ AskAnswered, line' = line
  PROVE  /\ UNCHANGED <<overlay, busy, queue, closed, signalled, program>>
         /\ work' \in WorkRecords /\ work'.kind = work.kind /\ reply' \in BOOLEAN
         /\ work.state \in {"queued", "running", "asking", "waiting"}
         /\ work'.state \in {"running", "asking", "done", "dropped"}
         /\ \/ UNCHANGED <<agent, disk, clock, lost>>
            \/ work.state = "running" /\ Changed /\ UNCHANGED <<work, disk, lost>>
            \/ /\ work'.state = "done" /\ UNCHANGED <<agent, clock>>
               /\ UNCHANGED <<disk, lost>> \/ Saved(agent.version) \/ (lost' = TRUE /\ UNCHANGED disk)
<1> USE DEF agentVars, progVars, workVars, States
<1>1. work \in WorkRecords /\ reply \in BOOLEAN
  BY DEF FrontInv, FrontTypes
<1>2. CASE WorkBegins
  BY <1>1, <1>2, MovedWork DEF WorkBegins
<1>3. CASE WorkDropped
  BY <1>1, <1>3, MovedWork DEF WorkDropped
<1>4. CASE WorkChanges
  BY <1>1, <1>4 DEF WorkChanges
<1>5. CASE WorkAsks
  BY <1>1, <1>5, MovedWork DEF WorkAsks
<1>6. CASE WorkGoesOn
  BY <1>1, <1>6, MovedWork DEF WorkGoesOn
<1>7. CASE WorkEnds
  <2>1. PICK e \in {"nil", "canceled", "other"} :
           /\ work.state = "running" /\ work' = [work EXCEPT !.state = "done", !.err = e]
           /\ UNCHANGED <<overlay, busy, queue, reply, agent, clock, closed, signalled, program>>
           /\ UNCHANGED <<disk, lost>> \/ Saved(agent.version) \/ (lost' = TRUE /\ UNCHANGED disk)
    BY <1>7 DEF WorkEnds
  <2> QED
    BY <1>1, <2>1, MovedWork
<1>8. CASE AskAnswered
  BY <1>1, <1>8, MovedWork DEF AskAnswered
<1> QED
  BY <1>2, <1>3, <1>4, <1>5, <1>6, <1>7, <1>8 DEF WorkStep

LEMMA WorkKeepsFrontInv ==
  ASSUME FrontInv, WorkStep \/ AskAnswered, line' = line
  PROVE  FrontInv'
<1>1. /\ UNCHANGED <<overlay, busy, queue, closed, signalled, program>>
      /\ work' \in WorkRecords /\ work'.kind = work.kind /\ reply' \in BOOLEAN
      /\ work.state \in {"queued", "running", "asking", "waiting"}
      /\ work'.state \in {"running", "asking", "done", "dropped"}
      /\ \/ UNCHANGED <<agent, disk, clock, lost>>
         \/ work.state = "running" /\ Changed /\ UNCHANGED <<work, disk, lost>>
         \/ /\ work'.state = "done" /\ UNCHANGED <<agent, clock>>
            /\ UNCHANGED <<disk, lost>> \/ Saved(agent.version) \/ (lost' = TRUE /\ UNCHANGED disk)
  BY WorkShape
<1>2. Active /\ busy /\ (program = "exited" => lost)
  BY <1>1 DEF Active, FrontInv, BusyShape, ExitShape
<1>3. FrontTypes'
  <2>1. CASE UNCHANGED <<agent, disk, clock, lost>>
    BY <1>1, <2>1, QuietTypes DEF FrontInv, FrontTypes
  <2>2. CASE Changed /\ UNCHANGED <<work, disk, lost>>
    BY <1>1, <2>2, ChangedShape DEF FrontInv, FrontTypes
  <2>3. CASE /\ UNCHANGED <<agent, clock>>
             /\ UNCHANGED <<disk, lost>> \/ Saved(agent.version) \/ (lost' = TRUE /\ UNCHANGED disk)
    <3>1. agent.version \in 0..clock
      BY DEF FrontInv, FrontTypes
    <3>2. disk' \in [Sessions -> 0..clock \cup {Torn}] /\ lost' \in BOOLEAN
      BY <2>3, <3>1, SavedShape DEF FrontInv, FrontTypes
    <3> QED
      BY <1>1, <2>3, <3>2 DEF FrontInv, FrontTypes
  <2> QED
    BY <1>1, <2>1, <2>2, <2>3
<1>4. BusyShape' /\ LineShape'
  BY <1>1, <1>2 DEF FrontInv, BusyShape, LineShape
<1>5. ExitShape'
  <2>1. CASE UNCHANGED lost
    BY <1>1, <1>2, <2>1 DEF ExitShape
  <2>2. CASE work'.state = "done" /\ UNCHANGED agent /\ Saved(agent.version)
    <3>1. disk'[agent.sid] = agent.version
      BY <2>2, SavedShape DEF FrontInv, FrontTypes
    <3> QED
      BY <2>2, <3>1 DEF ExitShape, IsSaved, Active
  <2>3. CASE lost' = TRUE
    BY <2>3 DEF ExitShape
  <2> QED
    BY <1>1, <2>1, <2>2, <2>3
<1> QED
  BY <1>3, <1>4, <1>5 DEF FrontInv

LEMMA MessagesKeepFrontInv ==
  ASSUME FrontInv, Messages, line' = line, line = "tui" \/ (line \in {"turn", "once"} /\ ~Done)
  PROVE  FrontInv'
<1> USE DEF agentVars, progVars
<1>1. Alive => program # "exited"
  BY DEF Alive
<1>2. CASE Done
  <2>1. /\ UNCHANGED <<overlay, reply, agent, disk, clock, lost, program, closed, signalled>>
        /\ program # "exited" /\ line = "tui"
    BY <1>1, <1>2 DEF Done
  <2>2. /\ work' \in WorkRecords /\ queue' \in 0..MaxQueued /\ busy' \in BOOLEAN
        /\ (work'.state = "none" /\ queue' = 0) \/ busy' = TRUE
    <3>1. NoWork \in WorkRecords /\ NoWork.state = "none"
      BY DEF NoWork, WorkRecords, States, WorkKinds
    <3>2. Queued("turn") \in WorkRecords /\ Queued("turn").state = "queued"
      BY NewWork DEF WorkKinds
    <3>3. queue \in Nat /\ queue \in 0..MaxQueued /\ MaxQueued \in Nat
      BY TuiAssumption DEF FrontInv, FrontTypes
    <3>4. CASE Dropped
      <4>1. queue' = 0 /\ busy' = FALSE /\ work' = NoWork
        BY <3>4 DEF Dropped
      <4>2. 0 \in 0..MaxQueued
        BY <3>3
      <4>3. queue' \in 0..MaxQueued
        BY <4>1, <4>2
      <4>4. work' \in WorkRecords /\ work'.state = "none"
        BY <4>1, <3>1
      <4>5. busy' \in BOOLEAN
        BY <4>1
      <4> QED
        BY <4>1, <4>3, <4>4, <4>5
    <3>5. CASE Kick /\ queue > 0
      <4>1. queue' = queue - 1 /\ busy' = TRUE /\ work' = Queued("turn")
        BY <3>5 DEF Kick, StartTurn
      <4> QED
        BY <4>1, <3>2, <3>3, <3>5
    <3>6. CASE Kick /\ ~(queue > 0)
      <4>1. queue' = queue /\ queue = 0 /\ busy' = FALSE /\ work' = NoWork
        BY <3>6, <3>3 DEF Kick
      <4> QED
        BY <4>1, <3>1, <3>3
    <3> QED
      BY <1>2, <3>4, <3>5, <3>6 DEF Done
  <2>3. FrontTypes'
    BY <2>1, <2>2, QuietTypes DEF FrontInv, FrontTypes
  <2>6. BusyShape'
    <3>1. CASE work'.state = "none" /\ queue' = 0
      BY <3>1 DEF BusyShape, Active
    <3>2. CASE busy' = TRUE
      BY <3>2 DEF BusyShape
    <3> QED
      BY <2>2, <3>1, <3>2
  <2>7. LineShape' /\ ExitShape'
    BY <2>1 DEF LineShape, ExitShape
  <2> QED
    BY <2>3, <2>6, <2>7 DEF FrontInv
<1>3. ASSUME NEW kind \in Questions, Question(kind) PROVE FrontInv'
  <2>1. /\ UNCHANGED <<busy, queue, reply, agent, disk, clock, lost, program, closed, signalled>>
        /\ overlay' = kind /\ program # "exited" /\ work.state = "asking"
        /\ work' = [work EXCEPT !.state = "waiting"]
    BY <1>1, <1>3 DEF Question
  <2>2. work' \in WorkRecords /\ work'.state = "waiting" /\ work'.kind = work.kind
    BY <2>1, MovedWork DEF FrontInv, FrontTypes, States
  <2>3. FrontTypes'
    BY <2>1, <2>2, QuietTypes DEF FrontInv, FrontTypes
  <2>4. BusyShape' /\ LineShape' /\ ExitShape'
    BY <2>1, <2>2 DEF FrontInv, BusyShape, LineShape, ExitShape, Active
  <2> QED
    BY <2>3, <2>4 DEF FrontInv
<1> QED
  BY <1>2, <1>3 DEF Messages

(***************************************************************************)
(* Leaving.                                                                *)
(***************************************************************************)

LEMMA ShutdownShape ==
  ASSUME FrontInv, Shutdown
  PROVE  /\ closed' = TRUE /\ reply' \in BOOLEAN
         /\ work' \in WorkRecords /\ work'.state = work.state /\ work'.kind = work.kind
         /\ Active' <=> Active
<1>1. work' = Cancelled /\ closed' = TRUE /\ reply' = (reply \/ work.state = "waiting")
  BY DEF Shutdown, ShutWork
<1>2. work' \in WorkRecords /\ work'.state = work.state /\ work'.kind = work.kind
  BY <1>1, CancelledWork
<1>3. reply' \in BOOLEAN
  BY <1>1
<1> QED
  BY <1>1, <1>2, <1>3 DEF Active

\* A program that has not exited owes nothing yet.
LEMMA LeavingKeepsFrontInv ==
  ASSUME FrontInv, UNCHANGED <<overlay, busy, queue, agent, clock, line>>,
         disk' \in [Sessions -> 0..clock \cup {Torn}], lost' \in BOOLEAN,
         signalled' \in BOOLEAN, closed' \in BOOLEAN, reply' \in BOOLEAN,
         work' \in WorkRecords, work'.state = work.state, work'.kind = work.kind,
         program' \in {"quitting", "stopped", "waiting", "exited"} \/ program' = program,
         program' = "exited" => lost' \/ (~Active /\ IsSaved')
  PROVE  FrontInv'
<1>1. FrontTypes'
  BY DEF FrontInv, FrontTypes
<1>2. Active' <=> Active
  BY DEF Active
<1>3. BusyShape'
  BY <1>2 DEF FrontInv, BusyShape
<1>4. LineShape'
  BY DEF FrontInv, LineShape
<1>5. ExitShape'
  BY <1>2 DEF ExitShape
<1> QED
  BY <1>1, <1>3, <1>4, <1>5 DEF FrontInv

LEMMA QuitKeepsFrontInv == FrontInv /\ OfTui(Quit) => FrontInv'
<1> SUFFICES ASSUME FrontInv, OfTui(Quit) PROVE FrontInv'
  OBVIOUS
<1>1. /\ Persists \/ PersistFails
      /\ Shutdown /\ program' = "quitting" /\ line = "tui" /\ line' = line
      /\ UNCHANGED <<overlay, busy, queue, agent, clock, signalled>>
  BY DEF OfTui, Quit
<1>2. disk' \in [Sessions -> 0..clock \cup {Torn}] /\ lost' \in BOOLEAN
  BY <1>1, PersistShape
<1>3. signalled' \in BOOLEAN
  BY <1>1 DEF FrontInv, FrontTypes
<1> QED
  BY <1>1, <1>2, <1>3, ShutdownShape, LeavingKeepsFrontInv

LEMMA ExitKeepsFrontInv ==
  ASSUME FrontInv, line' = line, Signal \/ Stop \/ Exits \/ GiveUp
  PROVE  FrontInv'
<1> USE DEF agentVars, workVars
<1>0. /\ disk \in [Sessions -> 0..clock \cup {Torn}] /\ lost \in BOOLEAN /\ work \in WorkRecords
      /\ closed \in BOOLEAN /\ signalled \in BOOLEAN /\ reply \in BOOLEAN
  BY DEF FrontInv, FrontTypes
<1>1. CASE Signal
  <2>1. /\ program # "exited" /\ signalled' = TRUE
        /\ UNCHANGED <<overlay, busy, queue, work, reply, agent, disk, clock, lost, program, closed>>
    BY <1>1 DEF Signal
  <2> QED
    BY <1>0, <2>1, LeavingKeepsFrontInv
<1>2. CASE Stop
  <2>1. /\ program' = "stopped"
        /\ UNCHANGED <<overlay, busy, queue, work, reply, agent, disk, clock, lost, closed, signalled>>
    BY <1>2 DEF Stop
  <2> QED
    BY <1>0, <2>1, LeavingKeepsFrontInv
<1>3. CASE FinishShutdown
  <2>1. /\ program' = "waiting" /\ Shutdown
        /\ UNCHANGED <<overlay, busy, queue, agent, disk, clock, lost, signalled>>
    BY <1>3 DEF FinishShutdown
  <2> QED
    BY <1>0, <2>1, ShutdownShape, LeavingKeepsFrontInv
<1>4. CASE Finish
  <2>1. /\ ~Active /\ program' = "exited"
        /\ Persists \/ PersistFails
        /\ UNCHANGED <<overlay, busy, queue, work, reply, agent, clock, closed, signalled>>
    BY <1>4 DEF Finish, WorkOver, Active
  <2>2. /\ disk' \in [Sessions -> 0..clock \cup {Torn}] /\ lost' \in BOOLEAN
        /\ lost' \/ agent.version = 0 \/ disk'[agent.sid] = agent.version
    BY <1>4, <2>1, PersistShape DEF Finish
  <2>3. lost' \/ IsSaved'
    BY <2>1, <2>2 DEF IsSaved
  <2> QED
    BY <1>0, <2>1, <2>2, <2>3, LeavingKeepsFrontInv
<1>5. CASE GiveUp
  <2>1. /\ program' = "exited" /\ lost' = TRUE
        /\ UNCHANGED disk \/ \E v \in Written : disk' = [disk EXCEPT ![agent.sid] = v]
        /\ UNCHANGED <<overlay, busy, queue, work, reply, agent, clock, closed, signalled>>
    BY <1>5 DEF GiveUp
  <2>2. Written \subseteq 0..clock \cup {Torn}
    BY DEF Written, FrontInv, FrontTypes
  <2>3. disk' \in [Sessions -> 0..clock \cup {Torn}]
    BY <1>0, <2>1, <2>2
  <2> QED
    BY <1>0, <2>1, <2>3, LeavingKeepsFrontInv
<1> QED
  BY <1>1, <1>2, <1>3, <1>4, <1>5 DEF Exits

(***************************************************************************)
(* Keys and lines.                                                         *)
(***************************************************************************)

\* Keys that leave the conversation alone, and lines that begin a turn.
LEMMA KeyKeepsFrontInv ==
  ASSUME FrontInv, program' # "exited", program' = program \/ program' = "killed",
         overlay' \in {"none", "quit"} \cup Questions,
         reply' \in BOOLEAN, UNCHANGED <<closed, signalled>>,
         agent' \in [sid : Sessions, version : 0..clock'], clock' \in 0..MaxChanges,
         disk' \in [Sessions -> 0..clock' \cup {Torn}], lost' \in BOOLEAN,
         work' \in WorkRecords, queue' \in 0..MaxQueued, line' \in {"tui", "prompt", "turn", "once"},
         \/ busy' = TRUE /\ line' # "prompt"
         \/ /\ UNCHANGED <<busy, line>>
            /\ Active' => Active
            /\ queue' = queue \/ queue' = 0,
         line' # "tui" => queue' = 0,
         line' = "once" => work'.kind = "turn"
  PROVE  FrontInv'
<1>1. FrontTypes'
  BY DEF FrontInv, FrontTypes
<1>2. BusyShape'
  <2>1. CASE busy' = TRUE
    BY <2>1 DEF BusyShape
  <2>2. CASE UNCHANGED <<busy, line>> /\ (Active' => Active) /\ (queue' = queue \/ queue' = 0)
    <3>1. Active' => busy'
      BY <2>2 DEF FrontInv, BusyShape
    <3>2. CASE queue' = 0
      BY <3>1, <3>2 DEF BusyShape
    <3>3. CASE queue' = queue
      BY <2>2, <3>1, <3>3 DEF FrontInv, BusyShape
    <3> QED
      BY <2>2, <3>2, <3>3
  <2> QED
    BY <2>1, <2>2
<1>3. line' = "prompt" => ~busy'
  BY DEF FrontInv, LineShape
<1>4. LineShape' /\ ExitShape'
  BY <1>3 DEF LineShape, ExitShape
<1> QED
  BY <1>1, <1>2, <1>4 DEF FrontInv

\* The commands that go from one session to another.
Switches ==
    \/ NotSwitched \/ Export
    \/ \E s \in Sessions : NewSession(s) \/ DeleteSession(s) \/ DeleteOther(s) \/ LoadSession(s)

\* What they leave.
Switched ==
    /\ UNCHANGED <<overlay, busy, work, reply, clock, program, closed, signalled>>
    /\ queue' = queue \/ queue' = 0
    /\ agent' \in [sid : Sessions, version : 0..clock]
    /\ disk' \in [Sessions -> 0..clock \cup {Torn}] /\ lost' \in BOOLEAN
    /\ agent' = agent \/ ~busy
    /\ Alive

LEMMA SwitchShape ==
  ASSUME FrontInv, Switches
  PROVE  Switched
<1> USE DEF workVars, progVars, Switched
<1>1. /\ clock \in Nat /\ agent \in [sid : Sessions, version : 0..clock]
      /\ disk \in [Sessions -> 0..clock \cup {Torn}] /\ lost \in BOOLEAN /\ Torn \notin Nat
  BY TuiAssumption DEF FrontInv, FrontTypes
<1>2. 0 \in 0..clock
  BY <1>1
<1>3. CASE NotSwitched \/ Export
  <2>1. Persists \/ PersistFails
    BY <1>3 DEF NotSwitched, Export
  <2>2. disk' \in [Sessions -> 0..clock \cup {Torn}] /\ lost' \in BOOLEAN
    BY <2>1, PersistShape
  <2> QED
    BY <1>1, <1>3, <2>2 DEF NotSwitched, Export, Idle
<1>4. ASSUME NEW s \in Sessions, NewSession(s) PROVE Switched
  <2>1. disk' \in [Sessions -> 0..clock \cup {Torn}] /\ lost' \in BOOLEAN
    BY <1>4, PersistShape DEF NewSession
  <2> QED
    BY <1>2, <1>4, <2>1 DEF NewSession, Idle
<1>5. ASSUME NEW s \in Sessions, DeleteSession(s) PROVE Switched
  BY <1>1, <1>2, <1>5 DEF DeleteSession, Idle
<1>6. ASSUME NEW s \in Sessions, DeleteOther(s) PROVE Switched
  BY <1>1, <1>2, <1>6 DEF DeleteOther, Idle
<1>7. ASSUME NEW s \in Sessions, LoadSession(s) PROVE Switched
  <2>1. disk' \in [Sessions -> 0..clock \cup {Torn}] /\ lost' \in BOOLEAN
    BY <1>7, PersistShape DEF LoadSession
  <2>2. disk[s] \in 0..clock
    BY <1>1, <1>7 DEF LoadSession
  <2> QED
    BY <1>7, <2>1, <2>2 DEF LoadSession, Idle
<1> QED
  BY <1>3, <1>4, <1>5, <1>6, <1>7 DEF Switches

LEMMA SwitchKeepsFrontInv ==
  ASSUME FrontInv, Switches, line' = line
  PROVE  FrontInv'
<1>1. Switched
  BY SwitchShape
<1>3. program' # "exited" /\ (Active' <=> Active)
  BY <1>1 DEF Switched, Alive, Active
<1>4. /\ queue' \in 0..MaxQueued
      /\ line' # "tui" => queue' = 0
      /\ line' = "once" => work'.kind = "turn"
  BY <1>1, TuiAssumption DEF Switched, FrontInv, FrontTypes, LineShape
<1>5. /\ overlay \in {"none", "quit"} \cup Questions /\ reply \in BOOLEAN
      /\ clock \in 0..MaxChanges /\ work \in WorkRecords
      /\ line \in {"tui", "prompt", "turn", "once"}
  BY DEF FrontInv, FrontTypes
<1> QED
  BY <1>1, <1>3, <1>4, <1>5, KeyKeepsFrontInv DEF Switched

LEMMA AnswerKeepsFrontInv ==
  ASSUME FrontInv, NEW interrupt, Answer(interrupt), line' = line
  PROVE  FrontInv'
<1> USE DEF agentVars, progVars
<1>1. /\ agent \in [sid : Sessions, version : 0..clock]
      /\ disk \in [Sessions -> 0..clock \cup {Torn}] /\ lost \in BOOLEAN
      /\ clock \in 0..MaxChanges /\ work \in WorkRecords /\ queue \in 0..MaxQueued
      /\ line \in {"tui", "prompt", "turn", "once"}
  BY DEF FrontInv, FrontTypes
<1>2. /\ Alive /\ reply' = TRUE /\ overlay' = "none"
      /\ UNCHANGED <<busy, queue, agent, disk, clock, lost, program, closed, signalled>>
      /\ work' = Cancelled \/ work' = work
  BY DEF Answer, Reply
<1>3. work' \in WorkRecords /\ work'.kind = work.kind /\ (Active' => Active)
  BY <1>1, <1>2, CancelledWork DEF Active
<1>4. /\ line' # "tui" => queue' = 0
      /\ line' = "once" => work'.kind = "turn"
  BY <1>2, <1>3 DEF FrontInv, LineShape
<1>5. program' # "exited"
  BY <1>2 DEF Alive
<1> QED
  BY <1>1, <1>2, <1>3, <1>4, <1>5, KeyKeepsFrontInv

\* Keys of the terminal UI.
LEMMA KeysKeepFrontInv ==
  ASSUME FrontInv, Key, line = "tui", line' = line
  PROVE  FrontInv'
<1> USE DEF agentVars, progVars, workVars
<1>1. /\ overlay \in {"none", "quit"} \cup Questions /\ reply \in BOOLEAN
      /\ agent \in [sid : Sessions, version : 0..clock]
      /\ disk \in [Sessions -> 0..clock \cup {Torn}] /\ lost \in BOOLEAN
      /\ clock \in 0..MaxChanges /\ work \in WorkRecords /\ queue \in 0..MaxQueued
  BY DEF FrontInv, FrontTypes
<1>2. Alive => program # "exited"
  BY DEF Alive
<1>3. Cancelled \in WorkRecords /\ Cancelled.state = work.state
  BY CancelledWork
<1>4. \A kind \in WorkKinds : Queued(kind) \in WorkRecords
  BY NewWork
<1>5. ASSUME NEW interrupt \in BOOLEAN, Answer(interrupt) PROVE FrontInv'
  BY <1>5, AnswerKeepsFrontInv
<1>6. CASE CtrlC
  <2>1. /\ Alive /\ overlay' \in {overlay, "quit"}
        /\ UNCHANGED <<busy, queue, reply, agent, disk, clock, lost, program, closed, signalled>>
        /\ work' = Cancelled \/ work' = work
    BY <1>6 DEF CtrlC
  <2>2. work' \in WorkRecords /\ (Active' => Active)
    BY <1>1, <1>3, <2>1 DEF Active
  <2> QED
    BY <1>1, <1>2, <2>1, <2>2, KeyKeepsFrontInv
<1>7. CASE CtrlD \/ ConfirmQuit
  BY <1>7, QuitKeepsFrontInv DEF CtrlD, ConfirmQuit, OfTui
<1>8. CASE KeepOn \/ SlashQuit
  <2>1. /\ Alive /\ overlay' \in {"none", "quit"}
        /\ UNCHANGED <<busy, queue, work, reply, agent, disk, clock, lost, program, closed, signalled>>
    BY <1>8 DEF KeepOn, SlashQuit
  <2>2. Active' => Active
    BY <2>1 DEF Active
  <2> QED
    BY <1>1, <1>2, <2>1, <2>2, KeyKeepsFrontInv
<1>9. CASE Submit
  <2>1. /\ Alive
        /\ UNCHANGED <<overlay, reply, agent, disk, clock, lost, program, closed, signalled>>
    BY <1>9 DEF Submit
  <2>2. /\ work' \in WorkRecords /\ queue' \in 0..MaxQueued
        /\ busy' = TRUE
    <3>1. CASE busy
      <4>1. busy = TRUE
        BY <3>1 DEF FrontInv, FrontTypes
      <4>2. Enqueued \in 0..MaxQueued
        BY <1>1, TuiAssumption DEF Enqueued
      <4>3. queue' = Enqueued /\ busy' = busy /\ work' = work
        BY <1>9, <3>1 DEF Submit
      <4> QED
        BY <1>1, <4>1, <4>2, <4>3
    <3>2. CASE ~busy
      <4>1. queue' = queue /\ busy' = TRUE /\ work' = Queued("turn")
        BY <1>9, <3>2 DEF Submit, StartTurn
      <4> QED
        BY <1>1, <1>4, <4>1 DEF WorkKinds
    <3> QED
      BY <3>1, <3>2
  <2> QED
    BY <1>1, <1>2, <2>1, <2>2, KeyKeepsFrontInv
<1>10. CASE Compact
  <2>1. /\ Alive /\ busy' = TRUE /\ work' = Queued("compact")
        /\ UNCHANGED <<overlay, queue, reply, agent, disk, clock, lost, program, closed, signalled>>
    BY <1>10 DEF Compact, Idle
  <2>2. work' \in WorkRecords
    BY <1>4, <2>1 DEF WorkKinds
  <2> QED
    BY <1>1, <1>2, <2>1, <2>2, KeyKeepsFrontInv
<1>11. CASE Retry
  <2>1. /\ Alive /\ busy' = TRUE /\ work' = Queued("turn")
        /\ Changed \/ (agent' = [agent EXCEPT !.version = 0] /\ UNCHANGED clock)
        /\ UNCHANGED <<overlay, queue, reply, disk, lost, program, closed, signalled>>
    BY <1>11 DEF Retry, Idle, StartTurn
  <2>2. work' \in WorkRecords
    BY <1>4, <2>1 DEF WorkKinds
  <2>3. /\ clock' \in 0..MaxChanges /\ agent' \in [sid : Sessions, version : 0..clock']
        /\ disk' \in [Sessions -> 0..clock' \cup {Torn}]
    <3>1. CASE Changed
      BY <1>1, <2>1, <3>1, ChangedShape
    <3>2. CASE agent' = [agent EXCEPT !.version = 0] /\ UNCHANGED clock
      BY <1>1, <2>1, <3>2, TuiAssumption
    <3> QED
      BY <2>1, <3>1, <3>2
  <2> QED
    BY <1>1, <1>2, <2>1, <2>2, <2>3, KeyKeepsFrontInv
<1>12. CASE Switches
  BY <1>12, SwitchKeepsFrontInv
<1> QED
  BY <1>5, <1>6, <1>7, <1>8, <1>9, <1>10, <1>11, <1>12 DEF Key, Switches

(***************************************************************************)
(* The line REPL.                                                          *)
(***************************************************************************)

\* A line begins a turn or a compaction.
LEMMA LineBegins ==
  ASSUME FrontInv, PromptLine \/ SlashCompact \/ SlashRetry, line # "tui", program = "running"
  PROVE  FrontInv' /\ ~busy
<1> USE DEF agentVars, progVars, workVars, LineKinds, WorkKinds
<1>1. /\ overlay \in {"none", "quit"} \cup Questions /\ reply \in BOOLEAN
      /\ agent \in [sid : Sessions, version : 0..clock]
      /\ disk \in [Sessions -> 0..clock \cup {Torn}] /\ lost \in BOOLEAN
      /\ clock \in 0..MaxChanges /\ queue \in 0..MaxQueued /\ queue = 0
  BY DEF FrontInv, FrontTypes, LineShape
<1>2. PICK kind \in WorkKinds :
        /\ busy' = TRUE /\ work' = Queued(kind)
        /\ UNCHANGED <<overlay, queue, reply, closed, signalled, program>>
        /\ line' = "turn" \/ (line' = "once" /\ kind = "turn")
  <2>1. CASE PromptLine
    BY <2>1 DEF PromptLine, Works, Goes
  <2>2. CASE SlashCompact
    BY <2>2 DEF SlashCompact, Works, Goes
  <2>3. CASE SlashRetry
    BY <2>3 DEF SlashRetry, Works, Goes
  <2> QED
    BY <2>1, <2>2, <2>3
<1>3. work' \in WorkRecords /\ work'.kind = kind
  BY <1>2, NewWork
<1>4. /\ clock' \in 0..MaxChanges /\ agent' \in [sid : Sessions, version : 0..clock']
      /\ disk' \in [Sessions -> 0..clock' \cup {Torn}] /\ lost' \in BOOLEAN
  <2>1. CASE PromptLine \/ SlashCompact
    BY <1>1, <2>1 DEF PromptLine, SlashCompact
  <2>2. CASE Changed /\ UNCHANGED <<disk, lost>>
    BY <1>1, <2>2, ChangedShape
  <2>3. CASE agent' = [agent EXCEPT !.version = 0] /\ UNCHANGED <<clock, disk, lost>>
    BY <1>1, <2>3, TuiAssumption
  <2> QED
    BY <2>1, <2>2, <2>3 DEF SlashRetry
<1>5. ~busy
  BY DEF PromptLine, SlashCompact, SlashRetry, FrontInv, LineShape
<1>6. FrontInv'
  BY <1>1, <1>2, <1>3, <1>4, KeyKeepsFrontInv
<1> QED
  BY <1>5, <1>6

LEMMA PromptEndsKeepsFrontInv ==
  ASSUME FrontInv, PromptEnds
  PROVE  FrontInv'
<1>1. /\ line = "prompt" /\ line' = line /\ program' = "exited"
      /\ Persists \/ PersistFails
      /\ UNCHANGED <<overlay, busy, queue, work, reply, agent, clock, closed, signalled>>
  BY DEF PromptEnds, Leaves, workVars
<1>2. ~Active
  BY <1>1 DEF FrontInv, BusyShape, LineShape
<1>3. /\ disk' \in [Sessions -> 0..clock \cup {Torn}] /\ lost' \in BOOLEAN
      /\ lost' \/ agent.version = 0 \/ disk'[agent.sid] = agent.version
  BY <1>1, <1>2, PersistShape
<1>4. lost' \/ IsSaved'
  BY <1>1, <1>3 DEF IsSaved
<1>5. work \in WorkRecords /\ signalled \in BOOLEAN /\ closed \in BOOLEAN /\ reply \in BOOLEAN
  BY DEF FrontInv, FrontTypes
<1> QED
  BY <1>1, <1>2, <1>3, <1>4, <1>5, LeavingKeepsFrontInv

LEMMA TurnOverKeepsFrontInv ==
  ASSUME FrontInv, TurnOver, line # "tui", program = "running"
  PROVE  FrontInv'
<1>1. /\ work' = NoWork /\ busy' = FALSE
      /\ UNCHANGED <<overlay, queue, reply, agent, clock, closed, signalled>>
      /\ \/ work.kind = "summary" /\ UNCHANGED <<disk, lost>>
         \/ Saved(agent.version)
         \/ lost' = TRUE /\ UNCHANGED disk
      /\ \/ (line = "once" \/ work.kind = "turn") /\ program' = "exited" /\ line' = line
         \/ line' = "prompt" /\ program' = program /\ line # "once"
  BY DEF TurnOver, Leaves, Goes
<1>2. NoWork \in WorkRecords /\ NoWork.state = "none" /\ NoWork.kind = "turn"
  BY DEF NoWork, WorkRecords, States, WorkKinds
<1>3. agent.version \in 0..clock /\ disk \in [Sessions -> 0..clock \cup {Torn}] /\ lost \in BOOLEAN
  BY DEF FrontInv, FrontTypes
<1>4. disk' \in [Sessions -> 0..clock \cup {Torn}] /\ lost' \in BOOLEAN
  BY <1>1, <1>3, SavedShape
<1>5. FrontTypes'
  BY <1>1, <1>2, <1>4 DEF FrontInv, FrontTypes
<1>6. ~Active' /\ queue' = 0
  BY <1>1, <1>2 DEF Active, FrontInv, LineShape
<1>7. BusyShape'
  BY <1>6 DEF BusyShape
<1>8. LineShape'
  BY <1>1, <1>2, <1>6 DEF LineShape
<1>9. ExitShape'
  <2>1. CASE program' # "exited"
    BY <2>1 DEF ExitShape
  <2>2. CASE program' = "exited"
    <3>1. work.kind # "summary"
      BY <1>1, <2>2 DEF FrontInv, LineShape
    <3>2. lost' = TRUE \/ disk'[agent.sid] = agent.version
      BY <1>1, <1>3, <3>1, SavedShape
    <3>3. lost' \/ IsSaved'
      BY <1>1, <3>2 DEF IsSaved
    <3> QED
      BY <1>6, <3>3 DEF ExitShape
  <2> QED
    BY <2>1, <2>2
<1> QED
  BY <1>5, <1>7, <1>8, <1>9 DEF FrontInv

\* An interrupt cancels the turn or kills the program.
LEMMA InterruptShape ==
  ASSUME FrontInv, Interrupt
  PROVE  /\ work' \in WorkRecords /\ work'.state = work.state /\ work'.kind = work.kind
         /\ program' = program \/ program' = "killed"
         /\ UNCHANGED <<overlay, busy, queue, reply, agent, disk, clock, lost, closed, signalled, line>>
         /\ line = "turn"
<1>1. work \in WorkRecords
  BY DEF FrontInv, FrontTypes
<1>2. /\ [work EXCEPT !.cancelled = TRUE] \in WorkRecords
      /\ [work EXCEPT !.cancelled = TRUE].state = work.state
      /\ [work EXCEPT !.cancelled = TRUE].kind = work.kind
  BY <1>1 DEF WorkRecords
<1> QED
  BY <1>1, <1>2 DEF Interrupt, agentVars

LEMMA InterruptKeepsFrontInv ==
  ASSUME FrontInv, Interrupt, program = "running"
  PROVE  FrontInv'
<1>1. /\ work' \in WorkRecords /\ work'.state = work.state /\ work'.kind = work.kind
      /\ program' = program \/ program' = "killed"
      /\ UNCHANGED <<overlay, busy, queue, reply, agent, disk, clock, lost, closed, signalled, line>>
      /\ line = "turn"
  BY InterruptShape
<1>2. /\ overlay \in {"none", "quit"} \cup Questions /\ reply \in BOOLEAN
      /\ agent \in [sid : Sessions, version : 0..clock]
      /\ disk \in [Sessions -> 0..clock \cup {Torn}] /\ lost \in BOOLEAN
      /\ clock \in 0..MaxChanges /\ queue \in 0..MaxQueued /\ queue = 0
  BY <1>1 DEF FrontInv, FrontTypes, LineShape
<1>3. program' # "exited" /\ (Active' => Active)
  BY <1>1 DEF Active
<1> QED
  BY <1>1, <1>2, <1>3, KeyKeepsFrontInv

LEMMA LineKeepsFrontInv ==
  ASSUME FrontInv, LineStep
  PROVE  FrontInv'
<1>0. program = "running" /\ line # "tui"
  BY DEF LineStep
<1>1. CASE PromptLine \/ SlashCompact \/ SlashRetry
  BY <1>0, <1>1, LineBegins
<1>2. CASE SlashSession
  BY <1>2, SwitchKeepsFrontInv DEF SlashSession, Switches
<1>3. CASE PromptEnds
  BY <1>3, PromptEndsKeepsFrontInv
<1>4. CASE Runs \/ AskAnswered
  BY <1>4, WorkKeepsFrontInv DEF Runs, AskAnswered, WorkStep
<1>5. CASE TurnOver
  BY <1>0, <1>5, TurnOverKeepsFrontInv
<1>6. CASE Interrupt
  BY <1>0, <1>6, InterruptKeepsFrontInv
<1>7. CASE Asked /\ UNCHANGED line
  <2>1. PICK kind \in Questions : Question(kind)
    BY <1>7 DEF Asked
  <2>2. Messages /\ ~Done
    BY <2>1 DEF Messages, Question, Done
  <2> QED
    BY <1>7, <2>2, MessagesKeepFrontInv DEF Asked
<1>8. CASE Answer(FALSE) /\ UNCHANGED line
  BY <1>8, AnswerKeepsFrontInv
<1>9. CASE Signal /\ UNCHANGED line
  BY <1>9, ExitKeepsFrontInv
<1> QED
  BY <1>1, <1>2, <1>3, <1>4, <1>5, <1>6, <1>7, <1>8, <1>9 DEF LineStep

LEMMA NextKeepsFrontInv == FrontInv /\ [LineNext]_lineVars => FrontInv'
<1> SUFFICES ASSUME FrontInv, [LineNext]_lineVars PROVE FrontInv'
  OBVIOUS
<1>1. CASE line = "tui" /\ Next /\ line' = line
  <2>1. CASE WorkStep
    BY <1>1, <2>1, WorkKeepsFrontInv
  <2>2. CASE Messages
    BY <1>1, <2>2, MessagesKeepFrontInv
  <2>3. CASE Signal \/ Stop \/ Exits \/ GiveUp
    BY <1>1, <2>3, ExitKeepsFrontInv
  <2>4. CASE Key
    BY <1>1, <2>4, KeysKeepFrontInv
  <2> QED
    BY <1>1, <2>1, <2>2, <2>3, <2>4 DEF Next
<1>2. CASE LineStep
  BY <1>2, LineKeepsFrontInv
<1>3. CASE UNCHANGED lineVars
  BY <1>3 DEF lineVars, vars, workVars, agentVars, progVars, FrontInv, FrontTypes, BusyShape,
              LineShape, ExitShape, Active, IsSaved
<1> QED
  BY <1>1, <1>2, <1>3 DEF LineNext, OfTui

LEMMA FrontInvHolds == FrontSpec => []FrontInv
<1> QED
  BY InitFrontInv, NextKeepsFrontInv, PTL DEF FrontSpec

\* Every variable of the front ends keeps its type, a goroutine at work is known to the
\* event loop, and prompts are queued only while it is.
THEOREM TypeCorrect == FrontSpec => []TypeOK
<1>1. FrontInv => TypeOK
  <2> SUFFICES ASSUME FrontInv PROVE TypeOK
    OBVIOUS
  <2>1. FrontTypes /\ BusyShape
    BY DEF FrontInv
  <2>2. \A s \in Sessions : disk[s] \in 0..clock \cup {Torn}
    BY <2>1 DEF FrontTypes
  <2> QED
    BY <2>1, <2>2 DEF FrontTypes, BusyShape, TypeOK, WorkRecords, States, WorkKinds
<1> QED
  BY <1>1, FrontInvHolds, PTL

\* When the program has exited the file holds the whole transcript, unless the last write
\* failed or the wait for the goroutine was given up (tui.go finish, repl.go lineLoop).
THEOREM ExitSaves == FrontSpec => []SavedOnExit
<1>1. FrontInv => SavedOnExit
  BY DEF FrontInv, ExitShape, IsSaved, SavedOnExit
<1> QED
  BY <1>1, FrontInvHolds, PTL

(***************************************************************************)
(* One writer.                                                             *)
(***************************************************************************)

\* What a step may do to a conversation whose goroutine is at work.
KeepsOff ==
    /\ agent'.sid = agent.sid
    /\ work'.state = "queued" => work.state = "queued"
    /\ agent' # agent => work.state = "running" /\ work' = work

\* A step that leaves the conversation alone starts no goroutine over another.
LEMMA TouchesNothing ==
  ASSUME agent' = agent, work'.state = work.state \/ work'.state # "queued"
  PROVE  KeepsOff
BY DEF KeepsOff

LEMMA KeyKeepsOff ==
  ASSUME FrontInv, Key, Active
  PROVE  KeepsOff
<1> USE DEF agentVars, workVars
<1>1. busy
  BY DEF FrontInv, BusyShape
<1>2. Cancelled.state = work.state
  BY CancelledWork
<1>3. ASSUME NEW interrupt \in BOOLEAN, Answer(interrupt) PROVE KeepsOff
  BY <1>2, <1>3, TouchesNothing DEF Answer
<1>4. CASE CtrlC
  BY <1>2, <1>4, TouchesNothing DEF CtrlC
<1>5. CASE CtrlD \/ ConfirmQuit
  BY <1>2, <1>5, TouchesNothing DEF CtrlD, ConfirmQuit, Quit, Shutdown, ShutWork
<1>6. CASE KeepOn \/ SlashQuit
  BY <1>6, TouchesNothing DEF KeepOn, SlashQuit
<1>7. CASE Submit
  BY <1>1, <1>7, TouchesNothing DEF Submit
<1>8. ~Compact /\ ~Retry
  BY <1>1 DEF Compact, Retry, Idle
<1>9. CASE Switches
  BY <1>1, <1>9, SwitchShape, TouchesNothing DEF Switched
<1> QED
  BY <1>3, <1>4, <1>5, <1>6, <1>7, <1>8, <1>9 DEF Key, Switches

LEMMA StepKeepsOff ==
  ASSUME FrontInv, LineNext, Active
  PROVE  KeepsOff
<1> USE DEF agentVars, workVars, progVars
<1>1. busy
  BY DEF FrontInv, BusyShape
<1>2. CASE (WorkStep \/ AskAnswered) /\ line' = line
  <2>1. /\ work'.state \in {"running", "asking", "done", "dropped"}
        /\ \/ agent' = agent
           \/ work.state = "running" /\ Changed /\ work' = work
    BY <1>2, WorkShape
  <2>2. CASE agent' = agent
    BY <2>1, <2>2, TouchesNothing
  <2>3. CASE work.state = "running" /\ Changed /\ work' = work
    BY <2>3, ChangedShape DEF KeepsOff
  <2> QED
    BY <2>1, <2>2, <2>3
<1>3. CASE Messages \/ Asked
  <2>1. PICK kind \in Questions : Question(kind)
    BY <1>3 DEF Messages, Asked, Done, Active
  <2>2. agent' = agent /\ work' = [work EXCEPT !.state = "waiting"]
    BY <2>1 DEF Question
  <2>3. work'.state = "waiting"
    BY <2>2, MovedWork DEF FrontInv, FrontTypes, States
  <2> QED
    BY <2>2, <2>3, TouchesNothing
<1>4. CASE Signal \/ Stop \/ Exits \/ GiveUp
  <2>1. agent' = agent /\ (work' = work \/ work' = Cancelled)
    BY <1>4 DEF Signal, Stop, Exits, FinishShutdown, Finish, GiveUp, Shutdown, ShutWork
  <2> QED
    BY <2>1, CancelledWork, TouchesNothing
<1>5. CASE Key
  BY <1>5, KeyKeepsOff
<1>6. ASSUME LineStep, ~((WorkStep \/ AskAnswered) /\ line' = line), ~Asked, ~Signal
      PROVE  KeepsOff
  <2>1. program = "running" /\ line # "tui"
    BY <1>6 DEF LineStep
  <2>2. ~PromptLine /\ ~SlashCompact /\ ~SlashRetry
    BY <1>1, <2>1, LineBegins
  <2>3. CASE SlashSession
    BY <1>1, <2>3, SwitchShape, TouchesNothing DEF SlashSession, Switches, Switched
  <2>4. CASE PromptEnds
    BY <2>4, TouchesNothing DEF PromptEnds
  <2>5. ~TurnOver
    BY DEF TurnOver, Active
  <2>6. CASE Interrupt
    BY <2>6, InterruptShape, TouchesNothing
  <2>7. CASE Answer(FALSE)
    BY <2>7, TouchesNothing DEF Answer
  <2> QED
    BY <1>6, <2>2, <2>3, <2>4, <2>5, <2>6, <2>7 DEF LineStep, Runs, WorkStep, AskAnswered
<1> QED
  BY <1>2, <1>3, <1>4, <1>5, <1>6 DEF LineNext, OfTui, Next

\* While a goroutine is at work on a conversation nothing else changes it, and no second
\* goroutine is started (update.go submit, runSlash, finishTurn; repl.go lineLoop).
THEOREM AloneAtWork == FrontSpec => OneWriter
<1>1. FrontInv /\ [LineNext]_lineVars
        => [Active => /\ agent'.sid = agent.sid
                      /\ work'.state = "queued" => work.state = "queued"
                      /\ agent' # agent => work.state = "running" /\ work' = work]_vars
  BY StepKeepsOff DEF KeepsOff, lineVars
<1> QED
  BY <1>1, FrontInvHolds, PTL DEF FrontSpec, OneWriter

=============================================================================
