SPECIFICATION FairSpec
CONSTANTS
    Namespaces = {nsA}
    Names = {p}
    Threads = {t1, t2}
    MaxStates = 1
    Lens = {1}
    MaxCreates = 2
    CanStop = FALSE
PROPERTIES PodsSettle ImplementsTransitionManager
