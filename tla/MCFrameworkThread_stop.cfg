SPECIFICATION FairSpec
CONSTANTS
    first = first
    second = second
    late = late
    Tasks = {first, second, late}
    Delayed = {late}
    DoStopSoon = DoStopSoon
    Clients = {c1, c2}
    MaxStarts = 2
    MixedUse = FALSE
INVARIANTS
    StartedMeansReady
    StopResets
    NoPostToDeletedLoop
    StopDrains
    TasksAccountedFor
PROPERTY StopReturns
CHECK_DEADLOCK FALSE
