SPECIFICATION Spec
CONSTANTS
    Namespaces = {nsA}
    Names = {p}
    Threads = {t1, t2}
    MaxStates = 2
    Lens = {2}
    MaxCreates = 2
    CanStop = TRUE
SYMMETRY Symmetry
INVARIANTS TypeOK CleanPodIsItsOwn NoneLeftBehind
PROPERTIES CleanPodAdvances ImplementsPodTable
