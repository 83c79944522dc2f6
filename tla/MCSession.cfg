SPECIFICATION Spec
CONSTANTS
    Tab = {"tab", "other"}
    This = "tab"
    Token = {"alice", "bob"}
    NoToken = "none"
    Moderator = "alice"
    Visited <- MCVisited
    MaxMoves <- MCMaxMoves
    MaxIncidents <- MCMaxIncidents
INVARIANTS
    SessionsAgree
    UserDataMatches
    EmbedderKnows
    PageFollowsLocation
    UserGetsThere
    ColumnsHaveTheirKeys
    LinksAreRouted
CHECK_DEADLOCK FALSE
PROPERTIES
    RoutingSettles
