CONSTANTS
    Caller = {main}
    Controller = {main}
    Delay = {0, 1}
    Interval = {1}
    MaxTasks = 2
    MaxWorkers = 2
    MaxTime = 1
SPECIFICATION FairSpec
INVARIANTS
    OneTimeConserved
    PaceKept
    WorkerKnown
PROPERTIES
    StopEnds
    DueTaken
