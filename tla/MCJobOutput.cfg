SPECIFICATION OutputSpec
CONSTANTS
    TailCap = 3
    MaxChunk = 5
    MaxBytes = 16
INVARIANTS
    BytesAreExact
    ResultSurfacedOnce
