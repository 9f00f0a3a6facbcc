CONSTANTS
    Controller = {k1}
    Frame = {"command"}
    MaxListeners = 1
    MaxConnections = 1
    MaxFrames = 1
SPECIFICATION Spec
CHECK_DEADLOCK FALSE
INVARIANTS
    StopCloses
