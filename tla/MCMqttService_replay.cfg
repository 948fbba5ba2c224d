SPECIFICATION FairSpec
CONSTANTS
    Forwarders = {f1}
    Messages = {m1, m2}
    NoMsg = NoMsg
    FaultKinds = {"ack"}
    MaxFaults = 1
    MaxCalls = 2
CHECK_DEADLOCK FALSE
PROPERTY
    OfflineDataIsReplayed
