CONSTANTS
    Rest = rest
    Service = {rest, a, b}
    Handler = {h1}
SYMMETRY Symmetry
SPECIFICATION Spec
CHECK_DEADLOCK FALSE
INVARIANTS
    UpOnlyWithDependencies
    RollbackExact
    RestartRestores
    NeverStuck
    PortReleased
    StopAllEmpties
    OrderExact
    AcyclicIsRanked
