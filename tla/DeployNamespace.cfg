SPECIFICATION DSpec
CONSTANTS
    Namespaces = {nsA, nsB}
    RSNames = {r}
    PodIds = {p1, p2, p3}
    Handlers = {DLoop, h1}
    Loop = Loop
    DLoop = DLoop
    NoRS = NoRS
    NoOwner = NoOwner
    NoDeploy = NoDeploy
    Default = nsA
    MaxReplicas = 2
    MaxPosts = 1
    MaxKills = 0
    MaxClashes = 0
    MaxEvents = 1
    CanStop = FALSE
SYMMETRY Symmetry
INVARIANT OneReconcilePerReplicaSet
