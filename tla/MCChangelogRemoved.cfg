\* A deleted resource is to be announced under its own path.
SPECIFICATION Spec
CONSTANTS
    Elsewhere = Elsewhere
    None = None
    Item = {"/p/i"}
    First <- MCFirst
    Resource <- MCResource
    Root = "/"
    Parent <- MCParent
    MaxOps = 2
    MaxTxn = 2
    MaxRefs = 1
INVARIANT
    RemovedIsAnnounced
\* The number of transactions is bounded.
CHECK_DEADLOCK FALSE
