SPECIFICATION Spec
CONSTANTS
    box = box
    plain = plain
    late = late
    later = later
    NoTask = NoTask
    Tasks = {box, plain, late, later}
    Delayed = {late, later}
    Delay <- MCDelay
    Script <- MCScript
    Posters = {p1, p2}
    MaxModal = 2
    MaxInput = 1
    MaxTime = 3
INVARIANTS
    HaveWorkMeansOneMessage
    WorkIsNoticed
    WaitsUntilDue
PROPERTY ImplementsTaskRunner
SYMMETRY MCSymmetry
CHECK_DEADLOCK FALSE

