SPECIFICATION Spec
CONSTANTS
    Namespaces = {nsA}
    RSNames = {r}
    PodIds = {p1, p2, p3}
    Handlers = {h1}
    Loop = Loop
    NoRS = NoRS
    NoOwner = NoOwner
    MaxReplicas = 2
    MaxPosts = 1
    MaxKills = 0
    MaxClashes = 0
    CanStop = FALSE
SYMMETRY Symmetry
INVARIANT NoOrphans
