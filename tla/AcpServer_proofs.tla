-------------------------- MODULE AcpServer_proofs --------------------------
(***************************************************************************)
(* Proofs about AcpServer, for any sets of sessions, prompts and agents:   *)
(* IInv is inductive, so the registration of prompts excludes overlapping  *)
(* runs however the loop's handlers interleave with the prompt goroutines. *)
(* On top of it, an agent works for one session all its life, so that only *)
(* the transcripts of a session's own agents are ever written to its file  *)
(* (AnswersAreStored).                                                     *)
(***************************************************************************)
EXTENDS AcpServer, TLAPS

\* The nil agent is not an agent, so an entry that holds one is not empty.
LEMMA NoneIsNoAgent == None \notin Agents
  BY ConstantsOK

\* The empty maps of Serve satisfy the invariant.
LEMMA InitInv == Init => IInv
<1> SUFFICES ASSUME Init PROVE IInv
  OBVIOUS
<1> USE ConstantsOK DEF Init, Registered, HandPending
<1>1. TypeOK
  <2>1. /\ sessions \in [Sessions -> Agents \cup {None}]
        /\ cancel \in [Sessions -> Prompts \cup {None}]
        /\ disk \in [Sessions -> SUBSET Prompts]
    OBVIOUS
  <2>2. /\ phase \in [Prompts -> Phases]
        /\ sid \in [Prompts -> Sessions \cup {None}]
        /\ on \in [Prompts -> Agents \cup {None}]
        /\ ctx \in [Prompts -> BOOLEAN]
        /\ asks \in [Prompts -> 0..MaxAsks]
    BY DEF Phases
  <2>3. life \in [Agents -> {"fresh", "live", "closed"}] /\ mem \in [Agents -> SUBSET Prompts]
    OBVIOUS
  <2> QED
    BY <2>1, <2>2, <2>3 DEF TypeOK, Points, Handlers
<1>2. CancelIsRegistration
  BY DEF CancelIsRegistration
<1>3. MapHoldsLiveAgents /\ NewAgentIsOurs
  BY DEF MapHoldsLiveAgents, NewAgentIsOurs
<1>4. RunOwnsAgent /\ OneRunPerAgent
  BY DEF RunOwnsAgent, OneRunPerAgent
<1> QED
  BY <1>1, <1>2, <1>3, <1>4 DEF IInv

\* Most steps leave the two maps, the agents and the set of registered prompts
\* alone: all they have to keep of the invariant is the types.
LEMMA FrameKeepsInv ==
  ASSUME IInv, TypeOK',
         UNCHANGED <<sessions, cancel, life>>,
         \A p \in Prompts : phase'[p] \in Registered <=> phase[p] \in Registered,
         \A p \in Prompts : phase[p] \in Registered => sid'[p] = sid[p] /\ on'[p] = on[p],
         HandPending' => HandPending /\ hand' = hand
  PROVE  IInv'
<1>1. CancelIsRegistration'
  BY DEF IInv, CancelIsRegistration
<1>2. MapHoldsLiveAgents' /\ NewAgentIsOurs'
  BY DEF IInv, MapHoldsLiveAgents, NewAgentIsOurs
<1>3. RunOwnsAgent'
  BY DEF IInv, RunOwnsAgent
<1>4. OneRunPerAgent'
  BY DEF IInv, OneRunPerAgent
<1> QED
  BY <1>1, <1>2, <1>3, <1>4 DEF IInv

\* What the read loop does with a message keeps the invariant.
LEMMA ReadKeepsInv == ASSUME IInv, ReadStep PROVE IInv'
<1> USE ConstantsOK
   DEF IInv, Registered, HandPending, NewAgent, Cancelled, AllCancelled, DroppedSession,
       Accepts, CleansUp, DroppedEntry, Message
<1>1. ASSUME NEW p \in Prompts, NEW s \in Sessions, ReadPrompt(p, s) PROVE IInv'
  <2>1. TypeOK'
    BY <1>1 DEF ReadPrompt, loopVars, agentVars, storeVars, TypeOK, Points, Handlers, Phases
  <2> QED
    BY <2>1, <1>1, FrameKeepsInv DEF ReadPrompt, loopVars, agentVars, storeVars, TypeOK
<1>2. ASSUME NEW p \in Prompts, ReadAnswer(p) PROVE IInv'
  <2>1. TypeOK'
    BY <1>2 DEF ReadAnswer, loopVars, agentVars, storeVars, TypeOK, Points, Handlers, Phases
  <2> QED
    BY <2>1, <1>2, FrameKeepsInv DEF ReadAnswer, loopVars, agentVars, storeVars, TypeOK
<1>3. ASSUME NEW s \in Sessions, NEW a \in Agents, ReadNew(s, a) PROVE IInv'
  <2>1. TypeOK'
    BY <1>3 DEF TypeOK, ReadNew, loopVars, promptVars, Points, Handlers, Phases
  <2>2. MapHoldsLiveAgents'
    BY <1>3 DEF TypeOK, MapHoldsLiveAgents, ReadNew, loopVars, promptVars
  <2>3. NewAgentIsOurs'
    BY <1>3 DEF TypeOK, NewAgentIsOurs, MapHoldsLiveAgents, ReadNew, loopVars, promptVars
  <2>4. RunOwnsAgent'
    BY <1>3
       DEF TypeOK, RunOwnsAgent, MapHoldsLiveAgents, NewAgentIsOurs,
           CancelIsRegistration, ReadNew, loopVars, promptVars
  <2> QED
    BY <2>1, <2>2, <2>3, <2>4, <1>3
       DEF CancelIsRegistration, OneRunPerAgent, ReadNew, loopVars, promptVars
<1>4. ASSUME NEW s \in Sessions, ReadCancel(s) PROVE IInv'
  <2>1. TypeOK'
    BY <1>4 DEF ReadCancel, loopVars, agentVars, storeVars, TypeOK, Points, Handlers, Phases
  <2> QED
    BY <2>1, <1>4, FrameKeepsInv DEF ReadCancel, loopVars, agentVars, storeVars, TypeOK
<1>5. ASSUME NEW s \in Sessions, ReadRestore(s) PROVE IInv'
  <2>1. TypeOK'
    BY <1>5 DEF ReadRestore, promptVars, agentVars, storeVars, TypeOK, Points, Handlers, Phases
  <2> QED
    BY <2>1, <1>5, FrameKeepsInv DEF ReadRestore, promptVars, agentVars, storeVars, TypeOK
<1>6. ASSUME NEW s \in Sessions, ReadClose(s) PROVE IInv'
  <2>1. TypeOK'
    BY <1>6
       DEF ReadClose, Begin, promptVars, agentVars, storeVars, TypeOK, Points,
           Handlers, Phases
  <2> QED
    BY <2>1, <1>6, FrameKeepsInv DEF ReadClose, Begin, promptVars, agentVars, storeVars, TypeOK
<1>7. ASSUME NEW s \in Sessions, ReadDelete(s) PROVE IInv'
  <2>1. TypeOK'
    BY <1>7
       DEF ReadDelete, Begin, promptVars, agentVars, storeVars, TypeOK, Points,
           Handlers, Phases
  <2> QED
    BY <2>1, <1>7, FrameKeepsInv DEF ReadDelete, Begin, promptVars, agentVars, storeVars, TypeOK
<1>8. ASSUME NEW s \in Sessions, ReadSetMode(s) PROVE IInv'
  <2>1. TypeOK'
    BY <1>8
       DEF ReadSetMode, Begin, promptVars, agentVars, storeVars, TypeOK, Points,
           Handlers, Phases
  <2> QED
    BY <2>1, <1>8, FrameKeepsInv
       DEF ReadSetMode, Begin, promptVars, agentVars, storeVars, TypeOK
<1>9. ASSUME ReadStop PROVE IInv'
  <2>1. TypeOK'
    BY <1>9 DEF ReadStop, agentVars, storeVars, TypeOK, Points, Handlers, Phases
  <2> QED
    BY <2>1, <1>9, FrameKeepsInv DEF ReadStop, agentVars, storeVars, TypeOK
<1> QED
  BY <1>1, <1>2, <1>3, <1>4, <1>5, <1>6, <1>7, <1>8, <1>9 DEF ReadStep

\* The rest of every handler keeps the invariant.
LEMMA LoopKeepsInv == ASSUME IInv, LoopStep PROVE IInv'
<1> USE ConstantsOK
   DEF IInv, Registered, HandPending, NewAgent, Cancelled, AllCancelled, DroppedSession,
       Accepts, CleansUp, DroppedEntry
<1>1. ASSUME NEW a \in Agents, RestoreNew(a) PROVE IInv'
  <2>1. TypeOK'
    BY <1>1 DEF TypeOK, RestoreNew, promptVars, storeVars, Points, Handlers, Phases
  <2>2. MapHoldsLiveAgents'
    BY <1>1 DEF TypeOK, MapHoldsLiveAgents, RestoreNew, promptVars, storeVars
  <2>3. NewAgentIsOurs'
    BY <1>1 DEF TypeOK, NewAgentIsOurs, MapHoldsLiveAgents, RestoreNew, promptVars, storeVars
  <2>4. RunOwnsAgent'
    BY <1>1
       DEF TypeOK, RunOwnsAgent, MapHoldsLiveAgents, NewAgentIsOurs,
           CancelIsRegistration, RestoreNew, promptVars, storeVars
  <2> QED
    BY <2>1, <2>2, <2>3, <2>4, <1>1
       DEF CancelIsRegistration, OneRunPerAgent, RestoreNew, promptVars, storeVars
<1>2. ASSUME RestoreNewFails PROVE IInv'
  <2>1. TypeOK'
    BY <1>2
       DEF RestoreNewFails, Return, promptVars, agentVars, storeVars, TypeOK, Points,
           Handlers, Phases
  <2> QED
    BY <2>1, <1>2, FrameKeepsInv
       DEF RestoreNewFails, Return, promptVars, agentVars, storeVars, TypeOK
<1>3. ASSUME StopPrompt PROVE IInv'
  <2>1. TypeOK'
    <3>1. CASE cancel[cur] = None
      BY <1>3, <3>1
         DEF TypeOK, StopPrompt, AfterStop, agentVars, storeVars, Points, Handlers,
             Phases
    <3>2. CASE cancel[cur] # None
      <4>1. ctx' \in [Prompts -> BOOLEAN] /\ await' \in Prompts
        BY <1>3, <3>2 DEF TypeOK, StopPrompt
      <4> QED
        BY <1>3, <3>2, <4>1
           DEF TypeOK, StopPrompt, agentVars, storeVars, Points, Handlers, Phases
    <3> QED
      BY <3>1, <3>2
  <2> QED
    BY <2>1, <1>3, FrameKeepsInv DEF StopPrompt, AfterStop, agentVars, storeVars
<1>4. ASSUME StopWait PROVE IInv'
  <2>1. TypeOK'
    BY <1>4
       DEF StopWait, AfterStop, Finished, promptVars, agentVars, storeVars, TypeOK,
           Points, Handlers, Phases
  <2> QED
    BY <2>1, <1>4, FrameKeepsInv
       DEF StopWait, AfterStop, Finished, promptVars, agentVars, storeVars, TypeOK
<1>5. ASSUME Release PROVE IInv'
  <2>1. TypeOK'
    <3>1. disk' \in [Sessions -> SUBSET Prompts] /\ files' \subseteq Sessions /\ born' = born
      BY <1>5 DEF TypeOK, Release, Save
    <3>2. /\ sessions' \in [Sessions -> Agents \cup {None}]
          /\ life' \in [Agents -> {"fresh", "live", "closed"}]
      BY <1>5 DEF TypeOK, Release
    <3>3. CASE req = "close"
      BY <1>5, <3>1, <3>2, <3>3
         DEF TypeOK, Release, Return, promptVars, Points, Handlers, Phases
    <3>4. CASE req # "close"
      <4>1. req \in {"load", "discard", "shutdown"}
        BY <1>5, <3>4 DEF TypeOK, Release
      <4>2. /\ pc' = CASE req = "load" -> "install"
                       [] req = "discard" -> "erase"
                       [] OTHER -> "next"
            /\ UNCHANGED <<req, cur, hand, file, await, ids>>
        BY <1>5, <3>4 DEF Release
      <4>3. pc' \in {"install", "erase", "next"} /\ (pc' = "install" => req = "load")
                                               /\ (pc' = "next" => req = "shutdown")
        BY <4>1, <4>2
      <4>4. pc' = "install" => hand # None
        BY <1>5, <4>3, NoneIsNoAgent DEF NewAgentIsOurs, Release
      <4> QED
        BY <1>5, <3>1, <3>2, <4>2, <4>3, <4>4
           DEF TypeOK, Release, promptVars, Points, Handlers, Phases
    <3> QED
      BY <3>3, <3>4
  <2>2. MapHoldsLiveAgents'
    BY <1>5 DEF TypeOK, MapHoldsLiveAgents, NewAgentIsOurs, Release, Save, Return, promptVars
  <2>3. NewAgentIsOurs'
    BY <1>5 DEF TypeOK, NewAgentIsOurs, MapHoldsLiveAgents, Release, Save, Return, promptVars
  <2>4. RunOwnsAgent'
    BY <1>5
       DEF TypeOK, RunOwnsAgent, MapHoldsLiveAgents, NewAgentIsOurs,
           CancelIsRegistration, Release, Save, Return, promptVars
  <2> QED
    BY <2>1, <2>2, <2>3, <2>4, <1>5
       DEF CancelIsRegistration, OneRunPerAgent, Release, Save, Return, promptVars
<1>6. ASSUME NEW m \in Modes, Install(m) PROVE IInv'
  <2>1. TypeOK'
    BY <1>6 DEF TypeOK, Install, Return, promptVars, storeVars, Points, Handlers, Phases
  <2>2. MapHoldsLiveAgents'
    BY <1>6
       DEF TypeOK, MapHoldsLiveAgents, NewAgentIsOurs, Install, Return, promptVars,
           storeVars
  <2>3. NewAgentIsOurs'
    BY <1>6 DEF TypeOK, NewAgentIsOurs, Install, Return, promptVars, storeVars
  <2>4. RunOwnsAgent'
    BY <1>6
       DEF TypeOK, RunOwnsAgent, MapHoldsLiveAgents, NewAgentIsOurs,
           CancelIsRegistration, Install, Return, promptVars, storeVars
  <2> QED
    BY <2>1, <2>2, <2>3, <2>4, <1>6
       DEF CancelIsRegistration, OneRunPerAgent, Install, Return, promptVars, storeVars
<1>7. ASSUME NEW m \in Modes, ApplyMode(m) PROVE IInv'
  <2>1. TypeOK'
    BY <1>7 DEF ApplyMode, Return, promptVars, storeVars, TypeOK, Points, Handlers, Phases
  <2> QED
    BY <2>1, <1>7, FrameKeepsInv DEF ApplyMode, Return, promptVars, storeVars, TypeOK
<1>8. ASSUME InstallFails PROVE IInv'
  <2>1. TypeOK'
    BY <1>8 DEF TypeOK, InstallFails, Return, promptVars, storeVars, Points, Handlers, Phases
  <2>2. MapHoldsLiveAgents'
    BY <1>8
       DEF TypeOK, MapHoldsLiveAgents, NewAgentIsOurs, InstallFails, Return,
           promptVars, storeVars
  <2>3. NewAgentIsOurs'
    BY <1>8 DEF TypeOK, NewAgentIsOurs, InstallFails, Return, promptVars, storeVars
  <2>4. RunOwnsAgent'
    BY <1>8 DEF TypeOK, RunOwnsAgent, InstallFails, Return, promptVars, storeVars
  <2> QED
    BY <2>1, <2>2, <2>3, <2>4, <1>8
       DEF CancelIsRegistration, OneRunPerAgent, InstallFails, Return, promptVars,
           storeVars
<1>9. ASSUME Erase PROVE IInv'
  <2>1. TypeOK'
    BY <1>9 DEF Erase, Return, promptVars, agentVars, TypeOK, Points, Handlers, Phases
  <2> QED
    BY <2>1, <1>9, FrameKeepsInv DEF Erase, Return, promptVars, agentVars, TypeOK
<1>10. ASSUME Drain PROVE IInv'
  <2>1. TypeOK'
    BY <1>10 DEF Drain, promptVars, agentVars, storeVars, TypeOK, Points, Handlers, Phases
  <2> QED
    BY <2>1, <1>10, FrameKeepsInv DEF Drain, promptVars, agentVars, storeVars, TypeOK
<1>11. ASSUME NEW s \in Sessions, CloseNext(s) PROVE IInv'
  <2>1. TypeOK'
    BY <1>11 DEF CloseNext, promptVars, agentVars, storeVars, TypeOK, Points, Handlers, Phases
  <2> QED
    BY <2>1, <1>11, FrameKeepsInv DEF CloseNext, promptVars, agentVars, storeVars, TypeOK
<1>12. ASSUME Exit PROVE IInv'
  <2>1. TypeOK'
    BY <1>12 DEF Exit, promptVars, agentVars, storeVars, TypeOK, Points, Handlers, Phases
  <2> QED
    BY <2>1, <1>12, FrameKeepsInv DEF Exit, promptVars, agentVars, storeVars, TypeOK
<1> QED
  BY <1>1, <1>2, <1>3, <1>4, <1>5, <1>6, <1>7, <1>8, <1>9, <1>10, <1>11, <1>12 DEF LoopStep

\* A step of a prompt goroutine keeps the invariant.
LEMMA PromptKeepsInv == ASSUME IInv, NEW p \in Prompts, PromptStep(p) PROVE IInv'
<1> USE ConstantsOK
   DEF IInv, Registered, HandPending, NewAgent, Cancelled, AllCancelled, DroppedSession,
       Accepts, CleansUp, DroppedEntry
<1>1. ASSUME PromptRefused(p) PROVE IInv'
  <2>1. TypeOK'
    BY <1>1
       DEF PromptRefused, MoveTo, loopVars, agentVars, storeVars, TypeOK, Points,
           Handlers, Phases
  <2> QED
    BY <2>1, <1>1, FrameKeepsInv
       DEF PromptRefused, MoveTo, loopVars, agentVars, storeVars, TypeOK
<1>2. ASSUME PromptRegister(p) PROVE IInv'
  <2>1. TypeOK'
    BY <1>2
       DEF TypeOK, PromptRegister, MoveTo, loopVars, agentVars, storeVars, Points,
           Handlers, Phases
  <2>2. CancelIsRegistration'
    BY <1>2
       DEF TypeOK, CancelIsRegistration, PromptRegister, MoveTo, loopVars, agentVars,
           storeVars
  <2>3. RunOwnsAgent'
    BY <1>2
       DEF TypeOK, RunOwnsAgent, MapHoldsLiveAgents, NewAgentIsOurs,
           CancelIsRegistration, PromptRegister, MoveTo, loopVars, agentVars, storeVars
  <2>4. OneRunPerAgent'
    BY <1>2
       DEF TypeOK, OneRunPerAgent, CancelIsRegistration, RunOwnsAgent, PromptRegister,
           MoveTo, loopVars, agentVars, storeVars
  <2> QED
    BY <2>1, <2>2, <2>3, <2>4, <1>2
       DEF MapHoldsLiveAgents, NewAgentIsOurs, PromptRegister, MoveTo, loopVars,
           agentVars, storeVars
<1>3. ASSUME PromptTurn(p) PROVE IInv'
  <2>1. TypeOK'
    BY <1>3 DEF PromptTurn, Save, loopVars, promptVars, TypeOK, Points, Handlers, Phases
  <2> QED
    BY <2>1, <1>3, FrameKeepsInv DEF PromptTurn, Save, loopVars, promptVars, TypeOK
<1>4. ASSUME PromptAsk(p) PROVE IInv'
  <2>1. TypeOK'
    BY <1>4
       DEF PromptAsk, MoveTo, loopVars, agentVars, storeVars, TypeOK, Points, Handlers,
           Phases
  <2> QED
    BY <2>1, <1>4, FrameKeepsInv DEF PromptAsk, MoveTo, loopVars, agentVars, storeVars, TypeOK
<1>5. ASSUME PromptReply(p) PROVE IInv'
  <2>1. TypeOK'
    BY <1>5 DEF PromptReply, MoveTo, Save, loopVars, agentVars, TypeOK, Points, Handlers, Phases
  <2> QED
    BY <2>1, <1>5, FrameKeepsInv DEF PromptReply, MoveTo, Save, loopVars, agentVars, TypeOK
<1>6. ASSUME PromptError(p) PROVE IInv'
  <2>1. TypeOK'
    BY <1>6
       DEF PromptError, MoveTo, Save, loopVars, agentVars, storeVars, TypeOK, Points,
           Handlers, Phases
  <2> QED
    BY <2>1, <1>6, FrameKeepsInv
       DEF PromptError, MoveTo, Save, loopVars, agentVars, storeVars, TypeOK
<1>7. ASSUME PromptAbort(p) PROVE IInv'
  <2>1. TypeOK'
    BY <1>7
       DEF PromptAbort, MoveTo, loopVars, agentVars, storeVars, TypeOK, Points,
           Handlers, Phases
  <2> QED
    BY <2>1, <1>7, FrameKeepsInv DEF PromptAbort, MoveTo, loopVars, agentVars, storeVars, TypeOK
<1>8. ASSUME PromptCleanup(p) PROVE IInv'
  <2>1. TypeOK'
    BY <1>8
       DEF TypeOK, PromptCleanup, MoveTo, loopVars, agentVars, storeVars, Points,
           Handlers, Phases
  <2>2. CancelIsRegistration'
    BY <1>8
       DEF TypeOK, CancelIsRegistration, PromptCleanup, MoveTo, loopVars, agentVars,
           storeVars
  <2>3. RunOwnsAgent'
    BY <1>8 DEF TypeOK, RunOwnsAgent, PromptCleanup, MoveTo, loopVars, agentVars, storeVars
  <2>4. OneRunPerAgent'
    BY <1>8 DEF TypeOK, OneRunPerAgent, PromptCleanup, MoveTo, loopVars, agentVars, storeVars
  <2> QED
    BY <2>1, <2>2, <2>3, <2>4, <1>8
       DEF MapHoldsLiveAgents, NewAgentIsOurs, PromptCleanup, MoveTo, loopVars,
           agentVars, storeVars
<1>9. ASSUME PromptErrorReply(p) PROVE IInv'
  <2>1. TypeOK'
    BY <1>9
       DEF PromptErrorReply, MoveTo, loopVars, agentVars, storeVars, TypeOK, Points,
           Handlers, Phases
  <2> QED
    BY <2>1, <1>9, FrameKeepsInv
       DEF PromptErrorReply, MoveTo, loopVars, agentVars, storeVars, TypeOK
<1> QED
  BY <1>1, <1>2, <1>3, <1>4, <1>5, <1>6, <1>7, <1>8, <1>9
     DEF PromptStep, PromptStart, PromptReturn, PromptFinish

\* A stop signal only cancels contexts, and the end of the input nothing at all.
LEMMA StopKeepsInv == ASSUME IInv, Hangup \/ Terminate PROVE IInv'
<1>1. CASE Hangup
  <2>1. TypeOK'
    BY <1>1 DEF IInv, TypeOK, Hangup, loopVars, promptVars, agentVars, storeVars
  <2> QED
    BY <1>1, <2>1, FrameKeepsInv DEF Hangup, HandPending, loopVars, promptVars, agentVars, storeVars
<1>2. CASE Terminate
  <2>1. TypeOK'
    BY <1>2 DEF IInv, TypeOK, Terminate, AllCancelled, loopVars, agentVars, storeVars
  <2> QED
    BY <1>2, <2>1, FrameKeepsInv DEF Terminate, HandPending, loopVars, agentVars, storeVars
<1> QED
  BY <1>1, <1>2

\* The invariant is about the variables alone: a stuttering step keeps it.
LEMMA StutterKeepsInv == ASSUME IInv, UNCHANGED vars PROVE IInv'
<1>1. TypeOK'
  BY DEF IInv, TypeOK, vars, loopVars, promptVars, agentVars, storeVars
<1> QED
  BY <1>1, FrameKeepsInv DEF HandPending, vars, loopVars, promptVars, agentVars, storeVars

\* IInv holds in every reachable state of the server.
THEOREM Invariance == Spec => []IInv
<1>1. IInv /\ [Next]_vars => IInv'
  BY ReadKeepsInv, LoopKeepsInv, StopKeepsInv, PromptKeepsInv, StutterKeepsInv DEF Next
<1> QED
  BY InitInv, <1>1, PTL DEF Spec

\* Every variable keeps its type, and each handler step finds the locals it reads.
THEOREM TypeCorrect == Spec => []TypeOK
<1>1. IInv => TypeOK
  BY DEF IInv
<1> QED
  BY <1>1, Invariance, PTL

\* Two prompts of one session are never registered at once: the second is busy.
THEOREM OverlapRefused == Spec => []OneRunPerSession
<1>1. ASSUME IInv, NEW p \in Prompts, NEW q \in Prompts,
             phase[p] \in Registered, phase[q] \in Registered, sid[p] = sid[q]
      PROVE  p = q
  <2>1. sid[p] \in Sessions
    BY <1>1 DEF IInv, TypeOK, Registered
  <2>2. cancel[sid[p]] = p /\ cancel[sid[p]] = q
    BY <1>1, <2>1 DEF IInv, CancelIsRegistration
  <2> QED
    BY <2>2
<1> QED
  <2>1. IInv => OneRunPerSession
    BY <1>1 DEF OneRunPerSession
  <2> QED
    BY <2>1, Invariance, PTL

\* No agent's transcript is appended to by two goroutines.
THEOREM AgentsNotShared == Spec => []OneRunPerAgent
<1>1. IInv => OneRunPerAgent
  BY DEF IInv
<1> QED
  BY <1>1, Invariance, PTL

\* The session map never leads to a closed agent.
THEOREM MapIsLive == Spec => []MapHoldsLiveAgents
<1>1. IInv => MapHoldsLiveAgents
  BY DEF IInv
<1> QED
  BY <1>1, Invariance, PTL

(***************************************************************************)
(* What is answered is stored.  Every agent works for one session all its  *)
(* life, so that whoever writes a session's file writes the transcript of  *)
(* an agent of that session.                                               *)
(***************************************************************************)

\* Agent a works for session s, and for no other.
Only(a, s) ==
    /\ life[a] # "fresh" /\ (HandPending => hand # a)
    /\ \A t \in Sessions : sessions[t] = a => t = s
    /\ \A q \in Prompts : on[q] = a => sid[q] = s

HomeInv ==
    \A p \in Prompts :
        /\ phase[p] \in {"unsent", "spawned"} => on[p] = None
        /\ phase[p] = "answered" => on[p] # None
        /\ on[p] # None => Only(on[p], sid[p])

\* The property, with a witness that will stay one.
StoredInv ==
    \A p \in Prompts :
        phase[p] \in {"replied", "answered"} /\ p \in mem[on[p]] /\ sid[p] \in files =>
            \/ p \in disk[sid[p]]
            \/ \E a \in Agents \ {on[p]} :
                   p \notin mem[a] /\ disk[sid[p]] = mem[a] /\ Only(a, sid[p])

\* An agent that is in the map works for the session it is mapped under.
LEMMA MappedOnly ==
  ASSUME IInv, HomeInv, NEW s \in Sessions, sessions[s] # None
  PROVE  sessions[s] \in Agents /\ Only(sessions[s], s)
<1>1. sessions[s] \in Agents
  BY DEF IInv, TypeOK
<1>2. life[sessions[s]] # "fresh" /\ (HandPending => hand # sessions[s])
  BY DEF IInv, MapHoldsLiveAgents, NewAgentIsOurs
<1>3. \A t \in Sessions : sessions[t] = sessions[s] => t = s
  BY DEF IInv, MapHoldsLiveAgents
<1>4. \A q \in Prompts : on[q] = sessions[s] => sid[q] = s
  BY DEF HomeInv, Only
<1> QED
  BY <1>1, <1>2, <1>3, <1>4 DEF Only

LEMMA FrameKeepsOnly ==
  ASSUME NEW a \in Agents, NEW s \in Sessions, Only(a, s),
         UNCHANGED <<sessions, life, on>>, HandPending' => HandPending /\ hand' = hand,
         \A q \in Prompts : on[q] = a => sid'[q] = sid[q]
  PROVE  Only(a, s)'
BY DEF Only

LEMMA StepKeepsOnly ==
  ASSUME IInv, HomeInv, Next, NEW a \in Agents, NEW s \in Sessions, Only(a, s)
  PROVE  Only(a, s)'
<1>0. TypeOK /\ None \notin Agents
  BY NoneIsNoAgent DEF IInv
<1>1. CASE ReadStep
  <2>1. ASSUME NEW p \in Prompts, NEW t \in Sessions, ReadPrompt(p, t) PROVE Only(a, s)'
    BY <1>0, <2>1, FrameKeepsOnly DEF ReadPrompt, loopVars, agentVars, HomeInv, TypeOK, HandPending
  <2>2. ASSUME NEW p \in Prompts, ReadAnswer(p) PROVE Only(a, s)'
    BY <2>2, FrameKeepsOnly DEF ReadAnswer, loopVars, agentVars, HandPending
  <2>3. ASSUME NEW t \in Sessions, NEW b \in Agents, ReadNew(t, b) PROVE Only(a, s)'
    BY <1>0, <2>3 DEF ReadNew, NewAgent, Only, loopVars, promptVars, TypeOK, HandPending
  <2>4. ASSUME NEW t \in Sessions,
               ReadCancel(t) \/ ReadRestore(t) \/ ReadClose(t) \/ ReadDelete(t) \/ ReadSetMode(t)
        PROVE  Only(a, s)'
    BY <2>4, FrameKeepsOnly
       DEF ReadCancel, ReadRestore, ReadClose, ReadDelete, ReadSetMode, Begin, loopVars, promptVars,
           agentVars, HandPending
  <2>5. CASE ReadStop
    BY <2>5, FrameKeepsOnly DEF ReadStop, agentVars, HandPending
  <2> QED
    BY <1>1, <2>1, <2>2, <2>3, <2>4, <2>5 DEF ReadStep
<1>2. CASE LoopStep
  <2>1. ASSUME NEW b \in Agents, RestoreNew(b) PROVE Only(a, s)'
    BY <1>0, <2>1 DEF RestoreNew, NewAgent, Only, promptVars, TypeOK
  <2>2. CASE RestoreNewFails \/ StopPrompt \/ StopWait \/ Erase \/ Drain \/ Exit
    BY <2>2, FrameKeepsOnly
       DEF RestoreNewFails, StopPrompt, StopWait, AfterStop, Erase, Drain, Exit, Return, promptVars,
           agentVars, HandPending
  <2>3. CASE Release
    <3>1. /\ UNCHANGED <<on, sid>> /\ life'[a] # "fresh"
          /\ \A t \in Sessions : sessions'[t] = a => sessions[t] = a
      BY <1>0, <2>3 DEF Release, DroppedSession, Only, promptVars, TypeOK
    <3>2. HandPending' => HandPending /\ hand' = hand
      BY <2>3 DEF Release, Return, HandPending
    <3> QED
      BY <3>1, <3>2 DEF Only
  <2>4. ASSUME NEW m \in Modes, Install(m) PROVE Only(a, s)'
    <3>1. hand # a
      BY <1>0, <2>4 DEF Install, Only, HandPending, TypeOK
    <3> QED
      BY <1>0, <2>4, <3>1 DEF Install, Return, Only, promptVars, TypeOK, HandPending
  <2>5. ASSUME NEW m \in Modes, ApplyMode(m) PROVE Only(a, s)'
    BY <2>5, FrameKeepsOnly DEF ApplyMode, Return, promptVars, HandPending
  <2>6. CASE InstallFails
    BY <1>0, <2>6 DEF InstallFails, Return, Only, promptVars, TypeOK, HandPending
  <2>7. ASSUME NEW t \in Sessions, CloseNext(t) PROVE Only(a, s)'
    BY <1>0, <2>7, FrameKeepsOnly DEF CloseNext, promptVars, agentVars, HandPending, TypeOK
  <2> QED
    BY <1>2, <2>1, <2>2, <2>3, <2>4, <2>5, <2>6, <2>7 DEF LoopStep
<1>3. CASE Hangup \/ Terminate
  BY <1>3, FrameKeepsOnly DEF Hangup, Terminate, loopVars, promptVars, agentVars, HandPending
<1>4. ASSUME NEW p \in Prompts, PromptStep(p) PROVE Only(a, s)'
  <2>1. CASE PromptRegister(p)
    <3>1. /\ UNCHANGED <<sessions, life, sid>> /\ (HandPending' <=> HandPending) /\ hand' = hand
          /\ on'[p] = sessions[sid[p]] /\ \A q \in Prompts \ {p} : on'[q] = on[q]
      BY <1>0, <2>1 DEF PromptRegister, loopVars, agentVars, HandPending, TypeOK
    <3>2. sid[p] \in Sessions
      BY <1>0, <2>1 DEF PromptRegister, TypeOK
    <3> QED
      BY <3>1, <3>2 DEF Only
  <2>2. CASE ~PromptRegister(p)
    <3>1. UNCHANGED <<sessions, life, on, sid, pc, req, hand>>
      BY <1>4, <2>2
         DEF PromptStep, PromptStart, PromptReturn, PromptFinish, PromptRefused, PromptTurn,
             PromptAsk, PromptReply, PromptError, PromptAbort, PromptCleanup, PromptErrorReply,
             loopVars, promptVars, agentVars
    <3> QED
      BY <3>1, FrameKeepsOnly DEF HandPending
  <2> QED
    BY <2>1, <2>2
<1> QED
  BY <1>1, <1>2, <1>3, <1>4 DEF Next

\* What a step does to a prompt: on and sid are set once.
LEMMA PromptsMove ==
  ASSUME IInv, HomeInv, Next, NEW p \in Prompts
  PROVE  /\ phase'[p] \in {"unsent", "spawned"} => phase[p] \in {"unsent", "spawned"}
         /\ phase'[p] = "answered" => phase[p] \in {"replied", "answered"}
         /\ phase'[p] = "replied" => phase[p] = "replied" \/ PromptReply(p)
         /\ phase[p] # "unsent" => sid'[p] = sid[p]
         /\ \/ on'[p] = on[p]
            \/ PromptRegister(p)
<1>0. TypeOK
  BY DEF IInv
<1>1. CASE ReadStep
  BY <1>0, <1>1
     DEF ReadStep, ReadPrompt, ReadAnswer, ReadNew, ReadCancel, ReadRestore, ReadClose, ReadDelete,
         ReadSetMode, ReadStop, promptVars, TypeOK
<1>2. CASE LoopStep \/ Hangup \/ Terminate
  BY <1>2
     DEF LoopStep, RestoreNew, RestoreNewFails, StopPrompt, StopWait, Release, Install, ApplyMode,
         InstallFails, Erase, Drain, CloseNext, Exit, Hangup, Terminate, promptVars
<1>3. ASSUME NEW q \in Prompts, PromptStep(q)
      PROVE  /\ phase'[p] \in {"unsent", "spawned"} => phase[p] \in {"unsent", "spawned"}
             /\ phase'[p] = "answered" => phase[p] \in {"replied", "answered"}
             /\ phase'[p] = "replied" => phase[p] = "replied" \/ PromptReply(p)
             /\ phase[p] # "unsent" => sid'[p] = sid[p]
             /\ on'[p] = on[p] \/ PromptRegister(p)
  <2>1. UNCHANGED sid
    BY <1>3
       DEF PromptStep, PromptStart, PromptReturn, PromptFinish, PromptRefused, PromptRegister,
           PromptTurn, PromptAsk, PromptReply, PromptError, PromptAbort, PromptCleanup,
           PromptErrorReply, promptVars
  <2>2. CASE p = q
    BY <1>0, <1>3, <2>1, <2>2
       DEF PromptStep, PromptStart, PromptReturn, PromptFinish, PromptRefused, PromptRegister,
           PromptTurn, PromptAsk, PromptReply, PromptError, PromptAbort, PromptCleanup,
           PromptErrorReply, promptVars, MoveTo, TypeOK, CleansUp
  <2>3. CASE p # q
    <3>1. phase'[p] = phase[p] /\ on'[p] = on[p]
      BY <1>0, <1>3, <2>3
         DEF PromptStep, PromptStart, PromptReturn, PromptFinish, PromptRefused, PromptRegister,
             PromptTurn, PromptAsk, PromptReply, PromptError, PromptAbort, PromptCleanup,
             PromptErrorReply, promptVars, MoveTo, TypeOK
    <3> QED
      BY <2>1, <3>1
  <2> QED
    BY <2>2, <2>3
<1> QED
  BY <1>1, <1>2, <1>3 DEF Next

LEMMA StepKeepsHome ==
  ASSUME IInv, HomeInv, Next
  PROVE  HomeInv'
<1> SUFFICES ASSUME NEW p \in Prompts
             PROVE  /\ phase'[p] \in {"unsent", "spawned"} => on'[p] = None
                    /\ phase'[p] = "answered" => on'[p] # None
                    /\ on'[p] # None => Only(on[p], sid[p])'
  BY DEF HomeInv
<1>0. TypeOK /\ None \notin Agents
  BY NoneIsNoAgent DEF IInv
<1>1. CASE PromptRegister(p)
  <2>1. PICK s \in Sessions : s = sid[p] /\ sessions[s] # None
    BY <1>0, <1>1 DEF PromptRegister, Accepts, TypeOK
  <2>2. PICK a \in Agents : a = sessions[s] /\ Only(a, s)
    BY <2>1, MappedOnly
  <2>3. phase'[p] = "running" /\ on'[p] = a /\ sid'[p] = s
    BY <1>0, <1>1, <2>1, <2>2 DEF PromptRegister, MoveTo, TypeOK
  <2>4. Only(a, s)'
    BY <2>2, StepKeepsOnly
  <2> QED
    BY <1>0, <2>3, <2>4
<1>2. CASE ~PromptRegister(p)
  <2>1. on'[p] = on[p]
    BY <1>2, PromptsMove
  <2>2. phase'[p] \in {"unsent", "spawned"} => on'[p] = None
    BY <2>1, PromptsMove DEF HomeInv
  <2>3. phase'[p] = "answered" => on'[p] # None
    <3>1. phase[p] = "replied" => on[p] # None
      BY <1>0 DEF TypeOK, Registered
    <3> QED
      BY <2>1, <3>1, PromptsMove DEF HomeInv
  <2>4. ASSUME on'[p] # None PROVE Only(on[p], sid[p])'
    <3>1. PICK a \in Agents, s \in Sessions : a = on[p] /\ s = sid[p] /\ Only(a, s)
      BY <1>0, <2>1, <2>4 DEF HomeInv, TypeOK
    <3>2. sid'[p] = s /\ on'[p] = a
      BY <2>1, <2>4, <3>1, PromptsMove DEF HomeInv
    <3>3. Only(a, s)'
      BY <3>1, StepKeepsOnly
    <3> QED
      BY <3>2, <3>3
  <2> QED
    BY <2>2, <2>3, <2>4
<1> QED
  BY <1>1, <1>2

\* What a step does to the file of session s: nothing, as to the transcripts of its
\* agents; or it writes one of them; or the file is gone.
FileChange(s) ==
    \/ /\ s \in files' <=> s \in files
       /\ disk'[s] = disk[s]
       /\ \A a \in Agents : Only(a, s) => mem'[a] = mem[a]
    \/ \E b \in Agents : Only(b, s) /\ disk'[s] = mem'[b]
    \/ s \notin files'

\* A save by an agent of session t.
LEMMA SaveChanges ==
  ASSUME IInv, NEW t \in Sessions, NEW turns, Save(t, turns),
         turns # {} => \E b \in Agents : Only(b, t) /\ turns = mem'[b],
         \A a \in Agents : mem'[a] # mem[a] => turns # {} /\ \E q \in Prompts : on[q] = a /\ sid[q] = t,
         NEW s \in Sessions
  PROVE  FileChange(s)
<1>0. disk \in [Sessions -> SUBSET Prompts]
  BY DEF IInv, TypeOK
<1>1. CASE turns = {}
  BY <1>1 DEF Save, FileChange
<1>2. CASE turns # {} /\ s = t
  BY <1>0, <1>2 DEF Save, FileChange
<1>3. CASE turns # {} /\ s # t
  <2>1. disk'[s] = disk[s] /\ (s \in files' <=> s \in files)
    BY <1>0, <1>3 DEF Save
  <2>2. \A a \in Agents : Only(a, s) => mem'[a] = mem[a]
    BY <1>3 DEF Only
  <2> QED
    BY <2>1, <2>2 DEF FileChange
<1> QED
  BY <1>1, <1>2, <1>3

LEMMA StoreChanges ==
  ASSUME IInv, HomeInv, Next, NEW s \in Sessions
  PROVE  FileChange(s)
<1>0. TypeOK /\ None \notin Agents
  BY NoneIsNoAgent DEF IInv
<1>a. ASSUME UNCHANGED <<files, disk, mem>> PROVE FileChange(s)
  BY <1>a DEF FileChange
<1>1. CASE ReadStep
  BY <1>1, <1>a
     DEF ReadStep, ReadPrompt, ReadAnswer, ReadNew, ReadCancel, ReadRestore, ReadClose, ReadDelete,
         ReadSetMode, ReadStop, agentVars, storeVars
<1>2. CASE Release
  <2>1. cur \in Sessions
    BY <1>0, <1>2 DEF Release, TypeOK
  <2>2. PICK turns : /\ turns = IF sessions[cur] = None \/ req = "discard" THEN {} ELSE mem[sessions[cur]]
                     /\ Save(cur, turns) /\ UNCHANGED mem
    BY <1>2 DEF Release
  <2>3. turns # {} => \E b \in Agents : Only(b, cur) /\ turns = mem'[b]
    BY <2>1, <2>2, MappedOnly
  <2> QED
    BY <2>1, <2>2, <2>3, SaveChanges
<1>3. ASSUME NEW m \in Modes, Install(m) PROVE FileChange(s)
  <2>1. /\ UNCHANGED <<files, disk>> /\ HandPending
        /\ \A a \in Agents : hand # a => mem'[a] = mem[a]
    BY <1>0, <1>3 DEF Install, storeVars, HandPending, TypeOK
  <2> QED
    BY <2>1 DEF FileChange, Only
<1>4. CASE Erase
  <2>1. UNCHANGED mem
    BY <1>4 DEF Erase, agentVars
  <2>2. \/ files' = files \ {cur} /\ disk' = [disk EXCEPT ![cur] = {}]
        \/ UNCHANGED <<files, disk>>
    BY <1>4 DEF Erase
  <2>3. CASE files' = files \ {cur} /\ disk' = [disk EXCEPT ![cur] = {}]
    <3>1. CASE s = cur
      BY <2>3, <3>1 DEF FileChange
    <3>2. CASE s # cur
      BY <1>0, <2>1, <2>3, <3>2 DEF FileChange, TypeOK
    <3> QED
      BY <3>1, <3>2
  <2> QED
    BY <1>a, <2>1, <2>2, <2>3
<1>5. CASE LoopStep /\ ~Release /\ ~Erase /\ ~(\E m \in Modes : Install(m))
  BY <1>5, <1>a
     DEF LoopStep, RestoreNew, RestoreNewFails, StopPrompt, StopWait, ApplyMode, InstallFails,
         Drain, CloseNext, Exit, agentVars, storeVars
<1>6. CASE Hangup \/ Terminate
  BY <1>6, <1>a DEF Hangup, Terminate, agentVars, storeVars
<1>7. ASSUME NEW q \in Prompts, PromptStep(q) PROVE FileChange(s)
  <2>a. ASSUME phase[q] = "running"
        PROVE  sid[q] \in Sessions /\ on[q] \in Agents /\ Only(on[q], sid[q])
    BY <1>0, <2>a DEF TypeOK, Registered, HomeInv
  <2>1. CASE PromptTurn(q)
    <3>1. PICK a \in Agents, t \in Sessions : a = on[q] /\ t = sid[q] /\ Only(a, t)
      BY <2>1, <2>a DEF PromptTurn
    <3>2. PICK turns : turns = mem[a] \cup {q}
      OBVIOUS
    <3>3. mem' = [mem EXCEPT ![a] = turns] /\ Save(t, turns)
      BY <1>0, <2>1, <3>1, <3>2 DEF PromptTurn, TypeOK
    <3>4. mem'[a] = turns /\ \A b \in Agents : b # a => mem'[b] = mem[b]
      BY <1>0, <3>3 DEF TypeOK
    <3>5. turns # {}
      BY <3>2
    <3> QED
      BY <3>1, <3>3, <3>4, <3>5, SaveChanges
  <2>2. CASE PromptReply(q) \/ PromptError(q)
    <3>1. phase[q] = "running" /\ UNCHANGED mem
      BY <2>2 DEF PromptReply, PromptError, agentVars
    <3>2. PICK a \in Agents, t \in Sessions : a = on[q] /\ t = sid[q] /\ Only(a, t)
      BY <2>a, <3>1
    <3>3. Save(t, mem[a]) \/ UNCHANGED <<files, disk>>
      BY <2>2, <3>2 DEF PromptReply, PromptError, storeVars
    <3>4. CASE Save(t, mem[a])
      BY <3>1, <3>2, <3>4, SaveChanges
    <3> QED
      BY <1>a, <3>1, <3>3, <3>4
  <2>3. CASE ~PromptTurn(q) /\ ~PromptReply(q) /\ ~PromptError(q)
    BY <1>7, <1>a, <2>3
       DEF PromptStep, PromptStart, PromptReturn, PromptFinish, PromptRefused, PromptRegister,
           PromptAsk, PromptAbort, PromptCleanup, PromptErrorReply, agentVars, storeVars
  <2> QED
    BY <2>1, <2>2, <2>3
<1> QED
  BY <1>1, <1>2, <1>3, <1>4, <1>5, <1>6, <1>7 DEF Next, LoopStep

\* An agent's transcript loses nothing, and a prompt enters it by its own turn.
LEMMA OwnTurn ==
  ASSUME IInv, HomeInv, Next, NEW p \in Prompts, phase[p] \in {"replied", "answered"},
         NEW a \in Agents, NEW s \in Sessions, Only(a, s), p \in mem'[a]
  PROVE  p \in mem[a]
<1>0. TypeOK
  BY DEF IInv
<1>1. CASE ReadStep \/ Hangup \/ Terminate
  BY <1>1
     DEF ReadStep, ReadPrompt, ReadAnswer, ReadNew, ReadCancel, ReadRestore, ReadClose, ReadDelete,
         ReadSetMode, ReadStop, Hangup, Terminate, agentVars
<1>2. ASSUME NEW m \in Modes, Install(m) PROVE p \in mem[a]
  <2>1. hand # a
    BY <1>0, <1>2 DEF Install, Only, HandPending, TypeOK
  <2> QED
    BY <1>0, <1>2, <2>1 DEF Install, TypeOK
<1>3. CASE LoopStep /\ ~(\E m \in Modes : Install(m))
  BY <1>3
     DEF LoopStep, RestoreNew, RestoreNewFails, StopPrompt, StopWait, Release, ApplyMode,
         InstallFails, Erase, Drain, CloseNext, Exit, agentVars
<1>4. ASSUME NEW q \in Prompts, PromptStep(q) PROVE p \in mem[a]
  <2>1. CASE PromptTurn(q)
    <3>1. p # q /\ mem' = [mem EXCEPT ![on[q]] = mem[on[q]] \cup {q}]
      BY <1>0, <2>1 DEF PromptTurn, TypeOK
    <3>2. mem'[a] \subseteq mem[a] \cup {q}
      BY <1>0, <3>1 DEF TypeOK
    <3> QED
      BY <3>1, <3>2
  <2>2. CASE ~PromptTurn(q)
    BY <1>4, <2>2
       DEF PromptStep, PromptStart, PromptReturn, PromptFinish, PromptRefused, PromptRegister,
           PromptAsk, PromptReply, PromptError, PromptAbort, PromptCleanup, PromptErrorReply,
           agentVars
  <2> QED
    BY <2>1, <2>2
<1> QED
  BY <1>1, <1>2, <1>3, <1>4 DEF Next, LoopStep

LEMMA StepKeepsStored ==
  ASSUME IInv, HomeInv, StoredInv, Next
  PROVE  StoredInv'
<1> SUFFICES ASSUME NEW p \in Prompts, phase'[p] \in {"replied", "answered"},
                    p \in mem'[on'[p]], sid'[p] \in files'
             PROVE  \/ p \in disk'[sid'[p]]
                    \/ \E a \in Agents \ {on'[p]} :
                           p \notin mem'[a] /\ disk'[sid'[p]] = mem'[a] /\ Only(a, sid[p])'
  BY DEF StoredInv
<1>0. TypeOK
  BY DEF IInv
<1>1. CASE PromptReply(p)
  <2>1. /\ UNCHANGED <<on, sid, mem>> /\ Save(sid[p], mem[on[p]])
        /\ sid[p] \in Sessions
    BY <1>0, <1>1 DEF PromptReply, agentVars, TypeOK
  <2>2. mem[on[p]] # {}
    BY <2>1
  <2>3. disk'[sid[p]] = mem[on[p]]
    BY <1>0, <2>1, <2>2 DEF Save, TypeOK
  <2> QED
    BY <2>1, <2>3
<1>2. CASE ~PromptReply(p)
  <2>1. phase[p] \in {"replied", "answered"} /\ sid'[p] = sid[p]
    BY <1>2, PromptsMove
  <2>2. on'[p] = on[p]
    BY <2>1, PromptsMove DEF PromptRegister
  <2>3. PICK o \in Agents, s \in Sessions : o = on[p] /\ s = sid[p] /\ Only(o, s)
    BY <1>0, <2>1 DEF TypeOK, Registered, HomeInv
  <2>4. p \in mem[o]
    BY <2>1, <2>2, <2>3, OwnTurn
  <2>5. CASE s \in files /\ disk'[s] = disk[s]
             /\ \A a \in Agents : Only(a, s) => mem'[a] = mem[a]
    <3>1. CASE p \in disk[s]
      BY <2>1, <2>3, <2>5, <3>1
    <3>2. CASE p \notin disk[s]
      <4>1. PICK a \in Agents \ {o} : p \notin mem[a] /\ disk[s] = mem[a] /\ Only(a, s)
        BY <2>1, <2>3, <2>4, <2>5, <3>2 DEF StoredInv
      <4>2. mem'[a] = mem[a]
        BY <2>5, <4>1
      <4>3. Only(a, s)'
        BY <4>1, StepKeepsOnly
      <4>4. Only(a, sid[p])'
        BY <2>1, <2>3, <4>3 DEF Only
      <4> QED
        BY <2>1, <2>2, <2>3, <2>5, <4>1, <4>2, <4>4
    <3> QED
      BY <3>1, <3>2
  <2>6. ASSUME NEW b \in Agents, Only(b, s), disk'[s] = mem'[b]
        PROVE  \/ p \in disk'[sid'[p]]
               \/ \E a \in Agents \ {on'[p]} :
                      p \notin mem'[a] /\ disk'[sid'[p]] = mem'[a] /\ Only(a, sid[p])'
    <3>1. CASE p \in mem'[b]
      BY <2>1, <2>3, <2>6, <3>1
    <3>2. CASE p \notin mem'[b]
      <4>1. b # o
        BY <2>2, <2>3, <3>2
      <4>2. Only(b, s)'
        BY <2>6, StepKeepsOnly
      <4>3. Only(b, sid[p])'
        BY <2>1, <2>3, <4>2 DEF Only
      <4> QED
        BY <2>1, <2>2, <2>3, <2>6, <3>2, <4>1, <4>3
    <3> QED
      BY <3>1, <3>2
  <2>7. s \in files' /\ FileChange(s)
    BY <2>1, <2>3, StoreChanges
  <2> QED
    BY <2>5, <2>6, <2>7 DEF FileChange
<1> QED
  BY <1>1, <1>2

\* A turn the client has a response for is in the session's file, unless an agent made
\* from an older file has written it since.
THEOREM AnswersAreStored == Spec => []AnsweredTurnIsStored
<1>1. Init => HomeInv /\ StoredInv
  BY DEF Init, HomeInv, StoredInv
<1>2. IInv /\ HomeInv /\ StoredInv /\ [Next]_vars => (HomeInv /\ StoredInv)'
  <2> SUFFICES ASSUME IInv, HomeInv, StoredInv, [Next]_vars PROVE (HomeInv /\ StoredInv)'
    OBVIOUS
  <2>1. CASE Next
    BY <2>1, StepKeepsHome, StepKeepsStored
  <2>2. CASE UNCHANGED vars
    <3>1. UNCHANGED <<phase, on, sid, mem, files, disk, life, sessions, pc, req, hand>>
      BY <2>2 DEF vars, loopVars, promptVars, agentVars, storeVars
    <3>2. \A a, s : Only(a, s)' <=> Only(a, s)
      BY <3>1 DEF Only, HandPending
    <3> QED
      BY <3>1, <3>2 DEF HomeInv, StoredInv
  <2> QED
    BY <2>1, <2>2
<1>3. StoredInv => AnsweredTurnIsStored
  BY DEF StoredInv, AnsweredTurnIsStored
<1> QED
  BY <1>1, <1>2, <1>3, Invariance, PTL DEF Spec
=============================================================================
