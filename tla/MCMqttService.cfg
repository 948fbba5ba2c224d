SPECIFICATION Spec
CONSTANTS
    Forwarders = {f1, f2}
    Messages = {m1, m2}
    NoMsg = NoMsg
    FaultKinds = {"link", "connect", "ack", "library", "enqueue", "load", "remove", "crash"}
    MaxFaults = 2
    MaxCalls = 4
SYMMETRY Symmetry
CHECK_DEADLOCK FALSE
INVARIANTS
    TypeOK
    NoRowLost
    RowsArriveInOrder
    RemovesConfirmedRow
    ConnectedTracksSession
    ThreadLifetimes
PROPERTY
    ImplementsStoreAndForward
