CONSTANTS
    MaxTasks = 2
    MaxAttempts = 1
    HistoryLimit = 1
    MaxRuns = 1
    Protected = {}
SPECIFICATION OSpec
INVARIANTS
    RunResolvesAll
