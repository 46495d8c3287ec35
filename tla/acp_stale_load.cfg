SPECIFICATION Spec
CONSTANTS
    Sessions = {s1}
    Prompts = {p1}
    Agents = {a1, a2}
    Modes <- OneMode
    None = None
    AlwaysApprove = TRUE
    MaxAsks = 1
    Requests <- LoadOnly
CHECK_DEADLOCK FALSE
PROPERTY LoadContinuesStored
