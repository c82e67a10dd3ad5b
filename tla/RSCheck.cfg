SPECIFICATION FairSpec
CONSTANTS
    Namespaces = {nsA}
    RSNames = {r}
    PodIds = {p1, p2, p3}
    Handlers = {h1}
    Loop = Loop
    NoRS = NoRS
    NoOwner = NoOwner
    MaxReplicas = 2
    MaxPosts = 3
    MaxKills = 1
    MaxClashes = 1
    CanStop = TRUE
INVARIANTS TypeOK OneReconcilePerKey NoOverProvision ScalesAsAsked
PROPERTIES Converges OrphansOnlyByCrossing ImplementsProvisioning
CHECK_DEADLOCK FALSE
