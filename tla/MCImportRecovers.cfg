CONSTANTS
    a = a
    b = b
    c = c
    q1 = q1
    q2 = q2
    Candidates = {a, b, c}
    ChunkOf <- MCChunkOf
    Runs = {1}
    Requests = {q1}
    Other = Other
    MaxFaults = 2
SPECIFICATION ImportSpec
INVARIANT ImportTypeOK
PROPERTY NoChunkRunsForever
CHECK_DEADLOCK FALSE
