SPECIFICATION FairServerSpec
CONSTANTS
    Instances = {g1, g2}
    MaxStarts = 2
    MaxCrashes = 1
    MaxFaults = 1
    Clients = {c1}
    Requests = {"PING", "huge", "empty"}
    SendBuffer = 1
    MaxRequests = 2
CHECK_DEADLOCK FALSE
INVARIANTS
    NotAllRefused
    OneAnswerEach
    ServedByLiving
PROPERTIES
    PathIsRespected
    AnswersArrive
