------------------------------ MODULE AgentRun ------------------------------
(***************************************************************************)
(* One agent of internal/agent: Run alternates model calls and batches of  *)
(* tool calls over the transcript Messages, checkpointing it to the        *)
(* session file whenever a message is attached.  The turn may be cancelled *)
(* at any moment, writes may fail, the transcript may be compacted under   *)
(* the turn, and the process may die and resume from the file.             *)
(*                                                                         *)
(* A message keeps its role, for an assistant message the tools it calls,  *)
(* for a tool message the call it answers and whether it is the tool's own *)
(* outcome or the loop's stand-in for one.  Call ids are positions in the  *)
(* calling message: only that much uniqueness is asked of the provider.    *)
(***************************************************************************)
EXTENDS Naturals, Sequences, FiniteSets

CONSTANTS
    CallPlans,    \* tool batches a model response may carry: sequences of tools
    SafeTools,    \* tools.ParallelSafe
    MaxTurns,     \* Cfg.MaxTurns
    AutoCompact,  \* Cfg.AutoCompact
    MaxParallel,  \* maxParallelTools
    WritesFail,   \* whether Save may fail
    MaxMessages   \* bound: no new turn is started beyond this length

ASSUME AgentAssumption ==
    /\ \A plan \in CallPlans : plan \in Seq(UNION {{plan[i] : i \in DOMAIN plan}})
    /\ <<>> \in CallPlans
    /\ MaxTurns \in Nat \ {0} /\ MaxParallel \in Nat \ {0} /\ MaxMessages \in Nat
    /\ AutoCompact \in BOOLEAN /\ WritesFail \in BOOLEAN

MaxAuto == 2  \* automatic compactions in one Run

VARIABLES
    pc,         \* where Run is; "idle" between turns, "rewound" between the two
                \* calls of a retry, "dead" between processes
    msgs,       \* Agent.Messages
    stored,     \* the transcript in the session file (empty: no file)
    persistErr, \* Agent.persistErr is set
    cancelled,  \* the turn's ctx is cancelled
    turn, auto, \* Run's counters
    worker,     \* goroutines of a parallel batch, by call, and then what they left
    outcome,    \* what the last turn returned
    ran         \* history: calls of the last calling message whose tool was started

vars == <<pc, msgs, stored, persistErr, cancelled, turn, auto, worker, outcome, ran>>

Message(role, calls, call, own) == [role |-> role, calls |-> calls, call |-> call, own |-> own]
User == Message("user", <<>>, 0, FALSE)
Assistant(plan) == Message("assistant", plan, 0, FALSE)
ToolResult(call, own) == Message("tool", <<>>, call, own)
StandIn(call) == ToolResult(call, FALSE)
Messages ==
    {User} \cup {Assistant(plan) : plan \in CallPlans}
           \cup UNION {{ToolResult(call, TRUE), StandIn(call)} :
                          call \in UNION {DOMAIN plan : plan \in CallPlans}}
Answers(msg, call) == msg.role = "tool" /\ msg.call = call

Points == {"idle", "rewound", "turn", "precompact", "chat", "overflow", "rechat",
           "serial", "parallel", "gather", "dead"}
Between == {"idle", "rewound", "dead"}
Outcomes == {"none", "refused", "done", "error", "session save"}

TypeOK ==
    /\ pc \in Points
    /\ msgs \in Seq(Messages) /\ stored \in Seq(Messages)
    /\ persistErr \in BOOLEAN /\ cancelled \in BOOLEAN
    /\ turn \in 0..MaxTurns /\ auto \in 0..MaxAuto
    /\ DOMAIN worker \in SUBSET Nat
    /\ \A i \in DOMAIN worker : worker[i] \in {"queued", "slot", "running", "finished", "refused"}
    /\ outcome \in Outcomes
    /\ pc \in {"serial", "parallel", "gather"} =>
         \E i \in DOMAIN msgs : msgs[i].calls # <<>>

NoWorkers == <<>>

Init ==
    /\ pc = "idle" /\ msgs = <<>> /\ stored = <<>>
    /\ persistErr = FALSE /\ cancelled = FALSE
    /\ turn = 0 /\ auto = 0 /\ worker = NoWorkers /\ outcome = "none" /\ ran = {}

(***************************************************************************)
(* Transcripts.                                                            *)
(***************************************************************************)

Callers(m) == {i \in DOMAIN m : m[i].calls # <<>>}
LastCaller(m) == CHOOSE i \in Callers(m) : \A j \in Callers(m) : j <= i
\* The calls of the last calling message that have a result after it.  Mutant: a
\* result anywhere counts.
AnsweredEver(m) == {m[k].call : k \in {k \in DOMAIN m : m[k].role = "tool"}}
Answered(m) == {m[k].call : k \in {k \in LastCaller(m)+1..Len(m) : m[k].role = "tool"}}
\* Its calls without one, as a set and in call order.
Open(m) == DOMAIN m[LastCaller(m)].calls \ Answered(m)
Missing(m) ==
    [k \in 1..Cardinality(Open(m)) |->
        CHOOSE call \in Open(m) : Cardinality({c \in Open(m) : c < call}) = k - 1]

\* Its calls whose result is the tool's own outcome.
Reported(m) ==
    IF Callers(m) = {} THEN {}
    ELSE {m[k].call : k \in {k \in LastCaller(m)+1..Len(m) : m[k].own}}

\* Mutant: a batch that has some results is left as it is.
CloseUnanswered(m) ==
    IF Callers(m) = {} \/ Answered(m) # {} THEN m
    ELSE m \o [k \in DOMAIN Missing(m) |-> StandIn(Missing(m)[k])]

\* repair.go: results for the open calls of the last calling message, at the end.
CloseOpenToolCalls(m) ==
    IF Callers(m) = {} THEN m
    ELSE m \o [k \in DOMAIN Missing(m) |-> StandIn(Missing(m)[k])]

\* The transcript RewindLastUser leaves.
Users(m) == {i \in DOMAIN m : m[i].role = "user"}
BeforeLastUser(m) == SubSeq(m, 1, (CHOOSE i \in Users(m) : \A j \in Users(m) : j <= i) - 1)

Summary == <<User, Assistant(<<>>)>>

(***************************************************************************)
(* Shared steps.                                                           *)
(***************************************************************************)

\* Mutant: Save forgets that it failed.
CheckpointQuiet(m) ==
    /\ msgs' = m /\ persistErr' = FALSE
    /\ stored' = m \/ (WritesFail /\ UNCHANGED stored)

\* Save: the file is replaced, then the last pointer; a failure of the second
\* leaves the new file behind an error.
Checkpoint(m) ==
    /\ msgs' = m
    /\ \/ stored' = m /\ persistErr' = FALSE
       \/ WritesFail /\ stored' \in {stored, m} /\ persistErr' = TRUE

\* Run's locals and its ctx are gone once it has returned.
RunReturns == cancelled' = FALSE /\ turn' = 0 /\ auto' = 0 /\ worker' = NoWorkers

\* Another calling message is the last one, or another process goes on: what ran is what
\* the transcript reports.
LastBatchChanges == ran' = Reported(msgs')

\* Mutant: the turn's own outcome stands.
FinishPlain(result) ==
    /\ pc' = "idle" /\ RunReturns
    /\ outcome' = result

\* finish: a pending write error replaces the turn's own outcome.
Finish(result) ==
    /\ pc' = "idle" /\ RunReturns
    /\ outcome' = IF persistErr' THEN "session save" ELSE result

\* ctx.Err() where Run looks at it.
CtxErr == cancelled

\* The loop of Run goes on.  Mutant: once more than it may.
OneMoreTurn == turn <= MaxTurns
TurnsLeft == turn < MaxTurns

\* At most two automatic compactions in a turn.
MayCompact == AutoCompact /\ auto < MaxAuto

\* Compact after the summary arrived; autoCompact fails if the write did.
Compacted ==
    /\ Checkpoint(Summary)
    /\ auto' = IF persistErr' THEN auto ELSE auto + 1

(***************************************************************************)
(* Run.                                                                    *)
(***************************************************************************)

\* A context that is already cancelled: nothing happens.
RunRefused ==
    /\ pc \in {"idle", "rewound"}
    /\ pc' = "idle" /\ outcome' = "refused"
    /\ UNCHANGED <<msgs, stored, persistErr, cancelled, turn, auto, worker, ran>>

Run ==
    /\ pc \in {"idle", "rewound"}
    /\ Len(msgs) < MaxMessages
    /\ Checkpoint(Append(CloseOpenToolCalls(msgs), User))
    /\ pc' = "turn" /\ outcome' = "none"
    /\ UNCHANGED <<cancelled, turn, auto, worker, ran>>

\* A retry drops the last user message and what follows it, in memory only, and
\* hands its text to Run.
RewindLastUser ==
    /\ pc = "idle" /\ Users(msgs) # {}
    /\ msgs' = BeforeLastUser(msgs)
    /\ pc' = "rewound"
    /\ UNCHANGED <<stored, persistErr, cancelled, turn, auto, worker, outcome>>
    /\ LastBatchChanges

\* The end user, a signal or a closing editor cancels the turn's context.
Cancel ==
    /\ pc \notin Between
    /\ ~cancelled
    /\ cancelled' = TRUE
    /\ UNCHANGED <<pc, msgs, stored, persistErr, turn, auto, worker, outcome, ran>>

OutOfTurns ==
    /\ pc = "turn" /\ ~TurnsLeft
    /\ UNCHANGED <<msgs, stored, persistErr>>
    /\ Finish("error")
    /\ UNCHANGED ran

TurnCancelled ==
    /\ pc = "turn" /\ TurnsLeft /\ CtxErr
    /\ Checkpoint(CloseOpenToolCalls(msgs))
    /\ Finish("error")
    /\ UNCHANGED ran

\* needsCompact: token counts are not kept, so any transcript of three
\* messages may have reached the limit.
TurnStarts ==
    /\ pc = "turn" /\ TurnsLeft /\ ~CtxErr
    /\ \/ pc' = "chat"
       \/ MayCompact /\ Len(msgs) >= 3 /\ pc' = "precompact"
    /\ UNCHANGED <<msgs, stored, persistErr, cancelled, turn, auto, worker, outcome, ran>>

\* autoCompact before the model call; its errors are ignored.
PreCompact ==
    /\ pc = "precompact"
    /\ \/ Compacted /\ LastBatchChanges
       \/ UNCHANGED <<msgs, stored, persistErr, auto, ran>>
    /\ pc' = "chat"
    /\ UNCHANGED <<cancelled, turn, worker, outcome>>

ChatFails ==
    /\ pc \in {"chat", "rechat"}
    /\ Checkpoint(msgs)
    /\ Finish("error")
    /\ UNCHANGED ran

\* The first model call of a turn overflows the context window.
ChatOverflows ==
    /\ pc = "chat"
    /\ MayCompact
    /\ pc' = "overflow"
    /\ UNCHANGED <<msgs, stored, persistErr, cancelled, turn, auto, worker, outcome, ran>>

\* Compacted and saved: the call is made again.
OverflowCompacted ==
    /\ pc = "overflow"
    /\ Len(msgs) >= 3
    /\ Compacted
    /\ ~persistErr'
    /\ pc' = "rechat"
    /\ UNCHANGED <<cancelled, turn, worker, outcome>>
    /\ LastBatchChanges

\* The summary failed, or its write did: the overflow ends the turn.
OverflowFails ==
    /\ pc = "overflow"
    /\ \/ Checkpoint(msgs) /\ UNCHANGED ran
       \/ Len(msgs) >= 3 /\ WritesFail /\ Checkpoint(Summary) /\ LastBatchChanges
    /\ Finish("error")

IsParallel(plan) == Len(plan) >= 2 /\ \A i \in DOMAIN plan : plan[i] \in SafeTools

ChatAnswers(plan) ==
    /\ pc \in {"chat", "rechat"}
    /\ Checkpoint(Append(msgs, Assistant(plan)))
    /\ \/ /\ plan = <<>>
          /\ Finish("done")
          /\ UNCHANGED ran
       \/ /\ plan # <<>>
          /\ pc' = IF IsParallel(plan) THEN "parallel" ELSE "serial"
          /\ worker' = IF IsParallel(plan) THEN [i \in DOMAIN plan |-> "queued"] ELSE NoWorkers
          /\ ran' = {}
          /\ UNCHANGED <<cancelled, turn, auto, outcome>>

(***************************************************************************)
(* Tool batches.                                                           *)
(***************************************************************************)

\* The result of the next call, in call order, and its checkpoint.
AppendNext(own) ==
    /\ Missing(msgs) # <<>>
    /\ Checkpoint(Append(msgs, ToolResult(Head(Missing(msgs)), own)))
    /\ UNCHANGED <<pc, cancelled, turn, auto, worker, outcome>>

BatchDone ==
    /\ Missing(msgs) = <<>>
    /\ turn' = turn + 1 /\ pc' = "turn" /\ worker' = NoWorkers
    /\ UNCHANGED <<msgs, stored, persistErr, cancelled, auto, outcome, ran>>

BatchCancelled ==
    /\ CtxErr
    /\ Checkpoint(CloseOpenToolCalls(msgs))
    /\ Finish("error")
    /\ UNCHANGED ran

\* runToolCallsSerial: ctx is looked at before each call.
Serial ==
    /\ pc = "serial"
    /\ \/ ~CtxErr /\ AppendNext(TRUE) /\ ran' = ran \cup {Head(Missing(msgs))}
       \/ Missing(msgs) # <<>> /\ BatchCancelled
       \/ BatchDone

\* A slot of sem.  Mutant: slots that are never given back.
SlotFreeOnce == Cardinality({j \in DOMAIN worker : worker[j] \notin {"queued", "refused"}}) < MaxParallel
SlotFree == Cardinality({j \in DOMAIN worker : worker[j] \in {"slot", "running"}}) < MaxParallel

\* What a goroutine does about a cancelled ctx, in the select for a slot and again when it
\* has one.  Mutant: it returns without wg.Done.
NeverGivesUp == FALSE
GivesUp == cancelled

\* The select of runToolCallsParallel: a free slot may be taken under a cancelled ctx too.
WorkerSelects(i) ==
    /\ pc = "parallel" /\ worker[i] = "queued"
    /\ \/ SlotFree /\ worker' = [worker EXCEPT ![i] = "slot"]
       \/ GivesUp /\ worker' = [worker EXCEPT ![i] = "refused"]
    /\ UNCHANGED <<pc, msgs, stored, persistErr, cancelled, turn, auto, outcome, ran>>

\* The second look at ctx, then the tool: the cancellation is the result otherwise.
WorkerStarts(i) ==
    /\ pc = "parallel" /\ worker[i] = "slot"
    /\ \/ /\ ~cancelled
          /\ worker' = [worker EXCEPT ![i] = "running"]
          /\ ran' = ran \cup {i}
       \/ /\ GivesUp
          /\ worker' = [worker EXCEPT ![i] = "refused"]
          /\ UNCHANGED ran
    /\ UNCHANGED <<pc, msgs, stored, persistErr, cancelled, turn, auto, outcome>>

WorkerFinishes(i) ==
    /\ pc = "parallel" /\ worker[i] = "running"
    /\ worker' = [worker EXCEPT ![i] = "finished"]
    /\ UNCHANGED <<pc, msgs, stored, persistErr, cancelled, turn, auto, outcome, ran>>

\* wg.Wait
Gather ==
    /\ pc = "parallel"
    /\ \A i \in DOMAIN worker : worker[i] \in {"finished", "refused"}
    /\ pc' = "gather"
    /\ UNCHANGED <<msgs, stored, persistErr, cancelled, turn, auto, worker, outcome, ran>>

\* results[i] is the outcome of the tool.  Mutant: after a cancellation it never is.
OwnIfInTime(i) == worker[i] = "finished" /\ ~cancelled
OwnResult(i) == worker[i] = "finished"

\* All results are appended in call order; ctx is looked at only afterwards.
GatherResult ==
    /\ pc = "gather"
    /\ \/ AppendNext(OwnResult(Head(Missing(msgs)))) /\ UNCHANGED ran
       \/ Missing(msgs) = <<>> /\ BatchCancelled
       \/ ~CtxErr /\ BatchDone

(***************************************************************************)
(* Between turns and between processes.                                    *)
(***************************************************************************)

\* /compact: Compact called directly, in an idle agent.
ManualCompact ==
    /\ pc = "idle" /\ Len(CloseOpenToolCalls(msgs)) >= 3
    /\ Checkpoint(Summary)
    /\ outcome' = IF persistErr' THEN "session save" ELSE "done"
    /\ UNCHANGED <<pc, cancelled, turn, auto, worker>>
    /\ LastBatchChanges

\* Save outside of a turn: ACP saves again after Run and when it releases a session.
SaveIdle ==
    /\ pc = "idle" /\ msgs # <<>>
    /\ Checkpoint(msgs)
    /\ UNCHANGED <<pc, cancelled, turn, auto, worker, outcome, ran>>

\* ExportMarkdown: the session is stored first, outside of Save, so that a failure is not
\* remembered.
Export ==
    /\ pc = "idle" /\ msgs # <<>>
    /\ stored' = msgs \/ (WritesFail /\ UNCHANGED stored)
    /\ UNCHANGED <<pc, msgs, persistErr, cancelled, turn, auto, worker, outcome, ran>>

\* recycle: a new, still unsaved session.
Reset ==
    /\ pc = "idle"
    /\ msgs' = <<>> /\ stored' = <<>> /\ persistErr' = FALSE /\ outcome' = "none"
    /\ UNCHANGED <<pc, cancelled, turn, auto, worker>>
    /\ LastBatchChanges

Crash ==
    /\ pc # "dead"
    /\ pc' = "dead" /\ msgs' = <<>> /\ persistErr' = FALSE
    /\ RunReturns /\ outcome' = "none"
    /\ UNCHANGED stored
    /\ LastBatchChanges

\* A new process resumes the session: LoadFile.
Resume ==
    /\ pc = "dead"
    /\ pc' = "idle" /\ msgs' = CloseOpenToolCalls(stored)
    /\ UNCHANGED <<stored, persistErr, cancelled, turn, auto, worker, outcome>>
    /\ LastBatchChanges

RunStep ==
    \/ OutOfTurns \/ TurnCancelled \/ TurnStarts \/ PreCompact
    \/ ChatFails \/ ChatOverflows \/ OverflowCompacted \/ OverflowFails
    \/ \E plan \in CallPlans : ChatAnswers(plan)
    \/ Serial \/ Gather \/ GatherResult
    \/ \E i \in DOMAIN worker : WorkerSelects(i) \/ WorkerStarts(i) \/ WorkerFinishes(i)

Next ==
    \/ RunRefused \/ Run \/ RewindLastUser \/ Cancel \/ RunStep
    \/ ManualCompact \/ SaveIdle \/ Export \/ Reset \/ Crash \/ Resume

Spec == Init /\ [][Next]_vars

\* Model calls and tools observe ctx: once it is cancelled they return, and the
\* goroutines are scheduled.  Without cancellation a streamed answer has no
\* timeout, so nothing is assumed of it.
FairSpec == Spec /\ WF_vars(cancelled /\ RunStep)

(***************************************************************************)
(* Properties.                                                             *)
(***************************************************************************)

\* Every calling message is followed at once by one result per call, in call
\* order, and there are no other results: what a chat API accepts.
Closed(m) ==
    /\ \A i \in DOMAIN m : \A k \in DOMAIN m[i].calls :
         i + k \in DOMAIN m /\ Answers(m[i + k], k)
    /\ \A i \in DOMAIN m : m[i].role = "tool" =>
         m[i].call < i /\ m[i].call \in DOMAIN m[i - m[i].call].calls

\* The transcript is closed whenever a model call is made on it and whenever a
\* turn has ended, through cancellation, failure, compaction, retry and resume.
TranscriptClosed ==
    pc \notin {"serial", "parallel", "gather"} => Closed(msgs)

\* The process may die at any moment: what is in the file is repaired by LoadFile.
StoredIsResumable == Closed(CloseOpenToolCalls(stored))

\* Without a pending write error the file holds the transcript, up to the repairs
\* of a resume; only a retry that did not start leaves it behind.
StoredUnlessError ==
    pc \notin {"dead", "rewound"} /\ ~persistErr /\ outcome # "refused"
        => msgs \in {stored, CloseOpenToolCalls(stored)}

\* A turn that ends otherwise than with "session save" has left all of its
\* messages in the file, also when writes failed in the middle of it.
EndedTurnIsStored ==
    pc = "idle" /\ outcome \in {"done", "error"} => stored = msgs

\* What the model is told of the last batch is what happened: a call has its tool's own
\* outcome for a result exactly if its tool was started, and no outcome is lost, however
\* the cancellation falls among the goroutines, their slots, wg.Wait and the appending of
\* the results.  A process that died forgets what it started.
ResultsTellTheTruth ==
    Reported(msgs) = IF pc \in {"parallel", "gather"} THEN ran \cap Answered(msgs) ELSE ran

\* A cancelled turn ends, wherever the cancellation finds it.
CancelledTurnEnds == cancelled ~> pc \in Between

\* If every model call and every tool returns, every turn ends: no batch waits for
\* a slot that is never given back, no compaction repeats for ever.
TurnEnds == WF_vars(RunStep) => (pc \notin Between ~> pc \in Between)
=============================================================================
