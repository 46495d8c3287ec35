SPECIFICATION FrontSpec
CONSTANTS
    MaxQueued = 2
    MaxSessions = 2
    MaxChanges = 3
    Torn = Torn
CHECK_DEADLOCK FALSE
INVARIANTS TypeOK SavedOnExit
PROPERTIES OneWriter CancelledTurnEnds ExitEnds
