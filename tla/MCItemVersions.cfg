\* Two transactions.
SPECIFICATION Spec
CONSTANTS
    Item <- MCItem
    Elements <- Chain
    Careful = TRUE
    MaxVersions = 3
    MaxLoose = 1
    MaxPosts = 2
    MaxTxn = 2
INVARIANTS
    TypeOK
    LinearHistory
    CommittedVersionsStay
    OneVersionPerTransaction
    UpdatesReachLast
\* The numbers of transactions and of versions are bounded.
CHECK_DEADLOCK FALSE
