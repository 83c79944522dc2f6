\* Clients that name any predecessor in a batch.
SPECIFICATION Spec
CONSTANTS
    Item <- MCItem
    Elements <- Chain
    Careful = FALSE
    MaxVersions = 3
    MaxLoose = 1
    MaxPosts = 2
    MaxTxn = 2
INVARIANT
    LinearHistory
\* The numbers of transactions and of versions are bounded.
CHECK_DEADLOCK FALSE
