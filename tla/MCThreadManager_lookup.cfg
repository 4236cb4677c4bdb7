SPECIFICATION Spec
CONSTANTS
    ui = ui
    misc = misc
    None = None
    Threads = {ui, misc}
    Ids = {kThreadUI, kThreadGlobalMisc}
    Relays = {first}
    Times = {}
    MaxManaged = 1
    MaxStarts <- Loops
    MaxRuns = 0
INVARIANT LookupSafe
CHECK_DEADLOCK FALSE
