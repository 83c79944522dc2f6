\* The root is to hear of what is created below it.
SPECIFICATION Spec
CONSTANTS
    Elsewhere = Elsewhere
    None = None
    Item = {"/p/i"}
    First <- MCFirst
    Resource <- MCResource
    Root = "/"
    Parent <- MCParent
    MaxOps = 2
    MaxTxn = 2
    MaxRefs = 1
INVARIANT
    RootHearsOfItems
\* The number of transactions is bounded.
CHECK_DEADLOCK FALSE
