CONSTANTS
    a = a
    b = b
    c = c
    q1 = q1
    q2 = q2
    Candidates = {a, b, c}
    ChunkOf <- MCChunkOf
    Runs = {1}
    Requests = {q1, q2}
    Other = Other
    MaxFaults = 1
SPECIFICATION Spec
SYMMETRY MCSymmetry
INVARIANT CompletedImportedAll
PROPERTY ImportedOnce
CHECK_DEADLOCK FALSE
