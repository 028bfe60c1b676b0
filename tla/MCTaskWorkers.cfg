SPECIFICATION FairSpec
CONSTANTS
    a = a
    b = b
    c = c
    d = d
    Tasks <- MCTasks
    Deps <- MCDeps
    MaxRetries <- MCMaxRetries
    RunBound = 0
    Before <- MCBefore
    Workers = {w1}
INVARIANTS
    NoStrandedTask
    RunningCountExact
PROPERTIES
    LivesSpec
    ReadyTaskSettles
    WaitingTaskResolves
CHECK_DEADLOCK FALSE
