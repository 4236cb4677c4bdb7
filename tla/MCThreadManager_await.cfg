SPECIFICATION Spec
CONSTANTS
    ui = ui
    misc = misc
    None = None
    Threads = {ui, misc}
    Ids = {kThreadUI, kThreadGlobalMisc}
    Relays = {first}
    Times = {2}
    MaxManaged = 2
    MaxStarts <- Loops
    MaxRuns = 3
INVARIANTS
    RegistryExact
    RelayInPlace
    RepeatBound
    CancelStops
CHECK_DEADLOCK FALSE
