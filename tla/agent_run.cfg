SPECIFICATION FairSpec
CONSTANTS
    CallPlans <- Plans
    SafeTools <- Safe
    MaxTurns = 2
    AutoCompact = TRUE
    MaxParallel = 1
    WritesFail = TRUE
    MaxMessages = 3
INVARIANTS TypeOK TranscriptClosed StoredIsResumable StoredUnlessError EndedTurnIsStored ResultsTellTheTruth
PROPERTIES CancelledTurnEnds TurnEnds
