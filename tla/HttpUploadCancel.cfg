SPECIFICATION Spec
CONSTANTS
    UploadQueue = 1
    BodyQueue = 1
    ResponseQueue = 1
    ResponseLimit = 1
    MaxChunks = 1
    MaxResponse = 1
PROPERTIES
    CancelledReadsReturn
CHECK_DEADLOCK FALSE
