SPECIFICATION Spec
CONSTANTS
    Topics = {t1, t2}
    NoTopic = NoTopic
    Services = {mqtt, storage}
    Storage = storage
    Publishers = {p1, p2}
    MaxIds = 4
SYMMETRY Symmetry
INVARIANTS
    IndexesAgree
    NoOrphanSubscription
    HistoryIsExact
