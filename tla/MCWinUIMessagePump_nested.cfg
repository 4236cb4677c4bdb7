SPECIFICATION Spec
CONSTANTS
    box = box
    plain = plain
    late = late
    later = later
    NoTask = NoTask
    Tasks = {box, plain, late}
    Delayed = {late}
    Delay <- MCDelay
    Script <- MCModalTimerScript
    Posters = {p1}
    MaxModal = 2
    MaxInput = 0
    MaxTime = 2
INVARIANT WorkIsNoticed
CHECK_DEADLOCK FALSE
