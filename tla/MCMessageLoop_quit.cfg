SPECIFICATION Spec
CONSTANTS
    outer = outer
    plain = plain
    only = only
    late = late
    soon = soon
    NoTask = NoTask
    Tasks = {outer, late, soon}
    NonNestable = {late}
    Delayed = {late, soon}
    Delay <- MCDelay
    Script <- MCLiveScript
    Posters = {p1}
    MaxDepth = 2
    MaxTime = 3
PROPERTY QuitRunsDueTasks
CHECK_DEADLOCK FALSE
