SPECIFICATION Spec
CONSTANTS
    Path = {"pool", "item"}
    Parent <- MCParent
    NoPath = "none"
    RequestIds = {1, 2}
    MaxVersion = 2
    MaxQueue = 1
    MaxHandlers = 2
    MaxIncidents = 2
INVARIANTS
    StaleIsAnnounced
    RegistrationsAccounted
    SubscriptionsFollow
    ListingFollowsEvents
CHECK_DEADLOCK FALSE
PROPERTIES
    NothingStaysStale
