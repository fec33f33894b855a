SPECIFICATION Spec
CONSTANTS
    UploadQueue = 1
    BodyQueue = 1
    ResponseQueue = 1
    ResponseLimit = 1
    MaxChunks = 3
    MaxResponse = 2
INVARIANTS
    BodyIntegrity
PROPERTIES
    WritesReturn EndedReadsReturn DeadlineBoundsReads NoThreadLeft
CHECK_DEADLOCK FALSE
