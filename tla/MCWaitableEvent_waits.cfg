SPECIFICATION Spec
CONSTANTS
    None = None
    Threads = {t1, t2, t3}
    Events = {1, 2}
    Manual = {2}
    Arrays <- BothWays
INVARIANTS
    SignalsConserved
    ListsTrue
    SomeoneProceeds
    OnlyLocksBlock
PROPERTY ImplementsEventSignals
SYMMETRY MCSymmetry
CHECK_DEADLOCK FALSE
