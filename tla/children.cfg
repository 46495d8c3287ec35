SPECIFICATION FairSpec
CONSTANTS
    InitCall = init
    ListCall = list
    Calls = {init, list, t1, t2}
    Queries = {q1, q2}
    Uris = {u1, u2}
    Reader = Reader
    Nobody = Nobody
    Starter = Starter
    PipeCap = 1
    MaxNoise <- Noise
    UpdatedCap = 1
CHECK_DEADLOCK FALSE
INVARIANTS TypeOK WaitTableSound OpenedOnce WakeupNotLost NoChildLeft
PROPERTIES ServiceSpec EveryCallReturns
