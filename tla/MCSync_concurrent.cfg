\* Two runs of the plain command line, which takes no lock, over one Provider.
SPECIFICATION Spec
CONSTANTS
    Provider = {"immich"}
    ExtId = {x, y}
    Path = {p}
    Content = {a, b}
    FileContent = {a, b}
    FreshContent = {a, b}
    MailContent = {}
    Big = {}
    LegacyId = {}
    Pages = FALSE
    Worker = {v, w}
    UseLock = FALSE
    MaxChanges = 2
    MaxFaults = 0
    Null = Null
    KindOf <- MCKindOf
    SizeOf <- MCSizeOf
    PathsOf <- MCPathsOf
    PathAddressed <- MCPathAddressed
    MayHold <- MCMayHold
    Legacy <- MCLegacy
INVARIANTS
    Inv
PROPERTIES
    ImplementsIdentity
    DeactivatedWasAbsent
SYMMETRY WorkerAndIdSymmetry
