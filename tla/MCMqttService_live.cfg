SPECIFICATION FairSpec
CONSTANTS
    Forwarders = {f1}
    Messages = {m1, m2}
    NoMsg = NoMsg
    FaultKinds = {"link", "enqueue"}
    MaxFaults = 2
    MaxCalls = 3
CHECK_DEADLOCK FALSE
INVARIANT
    ReplayNotForgotten
PROPERTIES
    DisconnectReturns
    BacklogDrains
