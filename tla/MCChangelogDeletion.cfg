\* A deletion is to change the ETag of the pool above it.
SPECIFICATION Spec
CONSTANTS
    Elsewhere = Elsewhere
    None = None
    Item = {"/p/i"}
    First <- MCFirst
    Resource <- MCResource
    Root = "/"
    Parent <- MCParent
    MaxOps = 2
    MaxTxn = 2
    MaxRefs = 1
INVARIANT
    DeletionChangesETag
\* The number of transactions is bounded.
CHECK_DEADLOCK FALSE
