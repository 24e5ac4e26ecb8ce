CONSTANTS
    None = None
    Resources = {1, 2, 3, 4}
    Locators = {"l1", "l2", "l3", "l4", "l9"}
    Providers = {"n", "immich"}
    Mimes = {"m1"}
    Locations = {"p1", "p2", "p3", "P1", "out"}
    Captures = {1, 2}
    Created <- MCCreated
    Title <- MCTitle
    Below <- MCBelow
    BelowFolded <- MCBelowFolded
    TitleHits = {1}
    Mentions <- MCMentions
    Ranking <- MCRanking
    PathKey <- MCPathKey
    Safe <- MCSafe
    RecentWindow = 5
    PageLimit = 2
    ProviderLimit = 4
    Size <- MCSize
    MaxBytes = 2
    MaxNow = 3
    MaxAssetChanges = 2
    MaxTimeouts = 1
    Requests = {r1, r2, r3}
    MaxActive = 2
    MaxRepresentation = 1
    MaxCloses = 1
    Texts <- MCTexts
    TextSources = {1, 2}
    MaxText = 11
    Window = 4
    MaxTextChanges = 2
SPECIFICATION Spec
INVARIANTS
    CompleteIsAll
    PagesAreOneSelection
    PermitsBalance
    WindowsAreWhole
PROPERTIES
    ChainEnds
    PermitsReturn
CHECK_DEADLOCK FALSE
