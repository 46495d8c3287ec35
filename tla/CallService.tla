----------------------------- MODULE CallService -----------------------------
(***************************************************************************)
(* What a JSON-RPC connection promises its callers, whatever the order in  *)
(* which answers, cancellations and the end of the stream arrive: a call   *)
(* ends once, with a result only if the peer sent one for it, and every    *)
(* call that was made ends.                                                *)
(***************************************************************************)
CONSTANT Calls

VARIABLES
    state,     \* per call: not made, pending, ended with a result, ended without
    answered   \* calls for which the peer has sent a result

vars == <<state, answered>>

Init ==
    /\ state = [c \in Calls |-> "unmade"]
    /\ answered = {}

Make(c) ==
    /\ state[c] = "unmade"
    /\ state' = [state EXCEPT ![c] = "pending"]
    /\ UNCHANGED answered

\* The peer answers; the caller may have given up, or not yet have asked.
Answer(c) ==
    /\ answered' = answered \cup {c}
    /\ UNCHANGED state

Succeed(c) ==
    /\ state[c] = "pending" /\ c \in answered
    /\ state' = [state EXCEPT ![c] = "result"]
    /\ UNCHANGED answered

Fail(c) ==
    /\ state[c] = "pending"
    /\ state' = [state EXCEPT ![c] = "failed"]
    /\ UNCHANGED answered

Next == \E c \in Calls : Make(c) \/ Answer(c) \/ Succeed(c) \/ Fail(c)

Spec == Init /\ [][Next]_vars

=============================================================================
