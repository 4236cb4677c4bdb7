SPECIFICATION Spec
CONSTANTS
    button = button
    edit = edit
    None = None
    Controls = {button, edit}
    Hideable = {button}
    Timers <- Blink
    Modulus = 2
    MaxDepth = 2
    MaxTimers = 3
INVARIANTS
    PointersAlive
    FocusIsOne
    TimersAsAsked
    HoverPaired
CONSTRAINT Small
CHECK_DEADLOCK FALSE
