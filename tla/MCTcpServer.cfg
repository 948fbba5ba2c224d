SPECIFICATION FairSpec
CONSTANTS
    Peers = {p1, p2}
    NoPeer = NoPeer
    Fds = {5, 6}
    SendBuffer = 1
    MaxBytes = 2
    MaxFaults = 1
INVARIANTS
    EchoIsExact
    TablesAgree
PROPERTY
    BytesComeBack
