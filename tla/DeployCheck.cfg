SPECIFICATION DFairSpec
CONSTANTS
    Namespaces = {nsA}
    RSNames = {r}
    PodIds = {p1, p2, p3}
    Handlers = {DLoop, h1}
    Loop = Loop
    DLoop = DLoop
    NoRS = NoRS
    NoOwner = NoOwner
    NoDeploy = NoDeploy
    Default = nsA
    MaxReplicas = 2
    MaxPosts = 1
    MaxKills = 1
    MaxClashes = 1
    MaxEvents = 1
    CanStop = TRUE
INVARIANTS DTypeOK GuardsHold PodsBounded ScalesAsAsked
PROPERTIES DeploymentsSettle ImplementsProvisioning SpecLostOnlyByOvertaking
CHECK_DEADLOCK FALSE
