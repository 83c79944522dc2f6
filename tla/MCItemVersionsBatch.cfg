\* One batch of two posts.
SPECIFICATION Spec
CONSTANTS
    Item <- MCItem
    Elements <- Pair
    Careful = TRUE
    MaxVersions = 2
    MaxLoose = 1
    MaxPosts = 2
    MaxTxn = 1
INVARIANT
    AllModificationsStored
\* The numbers of transactions and of versions are bounded.
CHECK_DEADLOCK FALSE
