CONSTANTS
  Delays <- AtOnceSoonLate
  kMaxTimerDelay = 2
  kTimerDelayPlaceholder = 4
  WM_QUIT = WM_QUIT
  Rounds = 2
  MaxQueue = 4
SPECIFICATION Spec
INVARIANTS NeverStalls RequestsKept CefNotReentered
PROPERTY PumpsOn
CHECK_DEADLOCK FALSE
