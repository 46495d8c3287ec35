SPECIFICATION Spec
CONSTANTS
    Paths = {"x"}
    Protected = {}
    Missing = Missing
    Failure = Failure
    MaxLines = 4
    Workspace <- MCFiles
    UndoCap = 3
    Edits <- MCEdits
CHECK_DEADLOCK FALSE
INVARIANT HunksShowTheFiles
