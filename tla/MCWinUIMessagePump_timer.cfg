SPECIFICATION Spec
CONSTANTS
    box = box
    plain = plain
    late = late
    later = later
    NoTask = NoTask
    Tasks = {box, late, later}
    Delayed = {late, later}
    Delay <- MCDelay
    Script <- MCScript
    Posters = {p1}
    MaxModal = 0
    MaxInput = 1
    MaxTime = 3
INVARIANT TimerIsSet
CHECK_DEADLOCK FALSE
