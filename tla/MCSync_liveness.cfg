\* The timers bring the World Model to what the Provider holds.
SPECIFICATION FairSpec
CONSTANTS
    Provider = {"immich"}
    ExtId = {x, y, z}
    Path = {p}
    Content = {a, b, c}
    FileContent = {a, b}
    FreshContent = {a, c}
    MailContent = {}
    Big = {b}
    LegacyId = {x, y}
    Pages = FALSE
    Worker = {w}
    UseLock = TRUE
    MaxChanges = 2
    MaxFaults = 1
    Null = Null
    KindOf <- MCKindOf
    SizeOf <- MCSizeOf
    PathsOf <- MCPathsOf
    PathAddressed <- MCPathAddressed
    MayHold <- MCMayHold
    Legacy <- MCLegacy
PROPERTIES
    EventuallyMirrored
