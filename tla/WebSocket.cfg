CONSTANTS
    Controller = {k1, k2}
    Frame = {"command", "approval", "ping", "pong", "query", "last"}
    MaxListeners = 2
    MaxConnections = 2
    MaxFrames = 2
SPECIFICATION Spec
CHECK_DEADLOCK FALSE
INVARIANTS
    ActiveExact
    OneAfterShut
    StopShutsWhatItSaw
