\* Formal runs, one at a time under the flock, over Nextcloud (files, read by
\* path) and Gmail (messages, read by id), with a row older than recorded sizes.
SPECIFICATION Spec
CONSTANTS
    Provider = {"nextcloud", "gmail"}
    ExtId = {x, y}
    Path = {p, q}
    Content = {a, b, m}
    FileContent = {a, b}
    FreshContent = {a, b}
    MailContent = {m}
    Big = {b}
    LegacyId = {x}
    Pages = FALSE
    Worker = {v, w}
    UseLock = TRUE
    MaxChanges = 2
    MaxFaults = 1
    Null = Null
    KindOf <- MCKindOf
    SizeOf <- MCSizeOf
    PathsOf <- MCPathsOf
    PathAddressed <- MCPathAddressed
    MayHold <- MCMayHold
    Legacy <- MCLegacy
INVARIANTS
    ReplayIsNoop
    DecisionsNeverConflict
PROPERTIES
    StableTraversalMirrors
SYMMETRY WorkerSymmetry
