SPECIFICATION Spec
CONSTANTS
    process = process
    event = event
    Objects = {process, event}
    NULL = NULL
    MaxStarts = 3
    MaxLoops = 2
    MaxQueue = 2
INVARIANTS NothingGone ToldOnce
PROPERTIES SignalArrives
CHECK_DEADLOCK FALSE
