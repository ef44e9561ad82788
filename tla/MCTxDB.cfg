SPECIFICATION Spec
CONSTANTS
    Handle = {h1, h2}
    Key = {k1, k2}
    Value = {v1, v2}
    NULL = NULL
    MaxBatch = 3
INVARIANT ReadsConsistent
