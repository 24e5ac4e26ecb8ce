\* The same bytes under two Assets.
SPECIFICATION Spec
CONSTANTS
    Provider = {"immich"}
    ExtId = {x, y, z}
    Path = {p}
    Content = {a, b}
    FileContent = {a, b}
    FreshContent = {a, b}
    MailContent = {}
    Big = {}
    LegacyId = {}
    Pages = FALSE
    Worker = {w}
    UseLock = TRUE
    MaxChanges = 3
    MaxFaults = 1
    Null = Null
    KindOf <- MCKindOf
    SizeOf <- MCSizeOf
    PathsOf <- MCPathsOf
    PathAddressed <- MCPathAddressed
    MayHold <- MCMayHold
    Legacy <- MCLegacy
INVARIANTS
    StoredContentIsAttached
SYMMETRY IdSymmetry
