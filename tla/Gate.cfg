CONSTANTS
    Proc = {p1, p2}
    Fingerprint = {f1, f2, f3}
    MaxPending = 2
    HistoryLimit = 1
    TTL = 1
    MaxRequests = 3
    MaxTime = 1
SYMMETRY Symmetry
SPECIFICATION Spec
INVARIANTS
    IndexExact
    DecidedInTime
    TransitionsAnnounced
PROPERTIES
    TerminalFinal
    OldestPrunedFirst
    ImplementsOneTimeGrant
