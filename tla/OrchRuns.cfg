CONSTANTS
    MaxTasks = 3
    MaxAttempts = 2
    HistoryLimit = 1
    MaxRuns = 2
    Protected = {1}
SPECIFICATION OFairSpec
INVARIANTS
    DependenciesFirst
    BlockedForCause
    AttemptsMatchOutcome
    ApprovalComesTooLate
PROPERTIES
    FinishedStays
    PendingResolved
