\* Two transactions of two operations over every initial tree of five places.
SPECIFICATION Spec
CONSTANTS
    Elsewhere = Elsewhere
    None = None
    Item = {"/p/i"}
    First <- MCFirst
    Resource <- MCResource
    Root = "/"
    Parent <- MCParent
    MaxOps = 2
    MaxTxn = 2
    MaxRefs = 1
INVARIANTS
    TypeOK
    MarksUpwardClosed
    CountedOnce
    ETagTracksChange
    NoticesComplete
\* The number of transactions is bounded.
CHECK_DEADLOCK FALSE
