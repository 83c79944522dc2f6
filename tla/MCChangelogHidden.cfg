\* A resource that stays hidden is not to be announced.
SPECIFICATION Spec
CONSTANTS
    Elsewhere = Elsewhere
    None = None
    Item = {"/p/i"}
    First <- MCFirst
    Resource <- MCResource
    Root = "/"
    Parent <- MCParent
    MaxOps = 2
    MaxTxn = 2
    MaxRefs = 1
INVARIANT
    HiddenStaysUnannounced
\* The number of transactions is bounded.
CHECK_DEADLOCK FALSE
