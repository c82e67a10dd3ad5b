SPECIFICATION Spec
CONSTANTS
    Namespaces = {nsA}
    Names = {p}
    Threads = {t1}
    MaxStates = 1
    Lens = {1}
    MaxCreates = 2
    CanStop = FALSE
INVARIANT RunningAfterOwnDelay
