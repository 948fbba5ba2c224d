SPECIFICATION Spec
CONSTANTS
    Messages <- MCMessages
    NoMsg = NoMsg
    Capacity = 15
    ChunkSize = 5
    MaxCounter = 2
    MaxSends = 3
    MaxSyncErrors = 1
CHECK_DEADLOCK FALSE
INVARIANT
    ReadsCompleteData
