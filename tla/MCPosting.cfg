SPECIFICATION Spec
CONSTANTS
    FormsOfPages = "forms"
    RatesOfPages = "rates"
    AccountsOfPages = "accounts"
    MenusOfPages = "menus"
    Clients = {"a", "b"}
    Written = "o"
    Empty = "-"
    Touchable <- MCTouchable
    Statuses = {"other"}
    Submissions <- MCSubmissions
    MaxVersions = 3
    MaxChanges = 1
    MaxSubmits = 2
    MaxFailures = 1
    Pages <- MCPages
    Raters = {"u", "v"}
    Nobody = "nobody"
    Elsewhere = "elsewhere"
    Buttons = {1}
    MaxEvents = 2
    UserResources = {1, 2}
    MailedLinks = {1, 2, 3}
    UserNames = {"n", "m"}
    Emails = {"x", "y"}
    NoEmail = "none"
    NoLink = 0
    Days = {0, 8, 31, 61}
    ROption = 30
    UOption = 60
    MaxActs = 4
    CaptchaActs = 2
    MaxChallenges = 3
    Moderators = {"m", "l"}
    IdeaBadges = {"good", "new"}
    Selected = {"winning", "shortlist"}
    MaxTurns = 4
CHECK_DEADLOCK FALSE
INVARIANTS
    StoresWhatTheFormShows
    ConflictIsReported
    EveryReferenceResolves
    OpensWhatItMade
    OneRatePerUser
    WidgetsAgree
    NothingIsStuck
    LinksLead
    LoginsIdentify
    EmailIsKept
    CaptchaFits
    PublishedBadgesStay
    ModerationIsWhole
