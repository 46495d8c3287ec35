------------------------------ MODULE TurnCalls ------------------------------
(***************************************************************************)
(* What an iteration of agent.Run calls: the model, and when it has         *)
(* answered the tools.                                                      *)
(***************************************************************************)
EXTENDS ToolRun

CONSTANTS MaxAttempts, MaxAnswer, Scripts

VARIABLES kind, phase, attempt, options, cancelled, script, pos, data, content, calls, shown, result, cut

Chat == INSTANCE SolarChat

ASSUME ChatAssumption ==
    MaxAttempts \in Nat \ {0} /\ MaxAnswer \in Nat /\ \A s \in Scripts : Chat!IsBody(s)

chatVars == <<kind, phase, attempt, options, cancelled, script, pos, data, content, calls, shown, result, cut>>
turnVars == <<vars, chatVars>>

TurnInit == Init /\ Chat!Init

Modelled == phase # "tools" /\ Chat!Next /\ UNCHANGED vars

\* Chat has returned an answer, whose tools are called.
ModelAnswered ==
    /\ kind = "chat" /\ phase = "returned" /\ result.ok
    /\ phase' = "tools"
    /\ UNCHANGED kind /\ attempt' = 0 /\ options' = FALSE /\ cancelled' = FALSE
    /\ script' = <<>> /\ pos' = 0 /\ data' = <<>> /\ content' = <<>> /\ calls' = <<>>
    /\ shown' = <<>> /\ result' = Chat!None /\ cut' = FALSE
    /\ UNCHANGED vars

Tooled == phase = "tools" /\ Next /\ UNCHANGED chatVars

TurnNext == Modelled \/ ModelAnswered \/ Tooled

TurnSpec == TurnInit /\ [][TurnNext]_turnVars /\ Fairness /\ Chat!Fairness

AnswerIsServers == Chat!AnswerIsServers
ChatReturns == Chat!ChatReturns
=============================================================================
