SPECIFICATION Spec
CONSTANTS
    Procs = {p1, p2}
    Ids = {s1, s2}
    None = None
    Inodes = {1, 2, 3, 4, 5, 6, 7}
    MaxMessages = 1
    WritesFail = FALSE
INVARIANTS OneProcessPerSession
