SPECIFICATION TurnSpec
CONSTANTS
    Trees = {"hooks/pre-commit"}
    Watched = {"HEAD"}
    Objects = {"objects/1"}
    Unguarded = {}
    Paths = {"x", "y", "git"}
    Protected = {"git"}
    Missing = Missing
    Failure = Failure
    MaxLines = 2
    UndoCap = 2
    Workspace <- MCFiles
    MaxStarted = 2
    Front = front
    Sides = {side}
    NoJob = NoJob
    MaxJobs = 1
    Starts <- MCStarts
    Edits <- MCEdits
    Writes <- MCWrites
    MaxSteps = 2
    MaxAttempts = 3
    MaxAnswer = 4
    Scripts <- MCScripts
CHECK_DEADLOCK FALSE
INVARIANTS TypeOK UndoRestores GitIsTheUsers JobsEndWithSession AnswerIsServers
PROPERTIES CallsReturn ChatReturns
