SPECIFICATION Spec
CONSTANTS
    Sessions = {s1}
    Prompts = {p1}
    Agents = {a1}
    Modes <- OneMode
    None = None
    AlwaysApprove = TRUE
    MaxAsks = 1
    Requests <- CloseOnly
CHECK_DEADLOCK FALSE
INVARIANT RunsOnLiveAgent
