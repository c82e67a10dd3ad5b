SPECIFICATION FairSpec
CONSTANTS
    Names = {p, q}
    Namespaces = {nsA, nsB}
    NoNamespace = NoNamespace
    Watchers = {w1}
    MaxVersions = 5
INVARIANTS TypeOK NothingMissed
PROPERTIES SeenNeverGoesBack WatchersCatchUp WatchEnds
CHECK_DEADLOCK FALSE
