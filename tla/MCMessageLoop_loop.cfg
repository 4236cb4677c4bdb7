SPECIFICATION FairSpec
CONSTANTS
    outer = outer
    plain = plain
    only = only
    late = late
    soon = soon
    NoTask = NoTask
    Tasks = {outer, plain, only, late}
    NonNestable = {only}
    Delayed = {plain, late}
    Delay <- MCDelay
    Script <- MCScript
    Posters = {p1}
    MaxDepth = 2
    MaxTime = 2
INVARIANTS
    NoLostWakeup
    SleepsOnlyWhenDrained
    NeverOversleeps
    EachTaskInOnePlace
    NestedOnlyIfAllowed
PROPERTIES
    QuitDrains
    QuitNowIsImmediate
    ImplementsTaskRunner
    PendingEventuallyRuns
    QuitEventuallyReturns
CHECK_DEADLOCK FALSE
