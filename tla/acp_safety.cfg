SPECIFICATION Spec
CONSTANTS
    Sessions = {s1, s2}
    Prompts = {p1, p2}
    Agents = {a1, a2, a3}
    Modes <- OneMode
    None = None
    AlwaysApprove = FALSE
    MaxAsks = 1
    Requests <- AllRequests
CHECK_DEADLOCK FALSE
SYMMETRY Symmetry
INVARIANTS TypeOK OneRunPerSession OneRunPerAgent MapHoldsLiveAgents AnsweredTurnIsStored
