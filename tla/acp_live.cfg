SPECIFICATION FairSpec
CONSTANTS
    Sessions = {s1}
    Prompts = {p1, p2}
    Agents = {a1, a2}
    Modes <- OneMode
    None = None
    AlwaysApprove = TRUE
    MaxAsks = 1
    Requests <- Waiting
CHECK_DEADLOCK FALSE
PROPERTIES HandlerReturns  CancelledPromptEnds
