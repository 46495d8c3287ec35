SPECIFICATION FairSpec
CONSTANTS
    Sessions = {s1}
    Prompts = {p1}
    Agents = {a1}
    Modes <- OneMode
    None = None
    AlwaysApprove = FALSE
    MaxAsks = 1
    Requests <- CloseOnly
CHECK_DEADLOCK FALSE
PROPERTY HandlerReturns
