CONSTANTS
    ExternalIds <- MCExternalIds
    Photos <- MCPhotos
    ResourceOf <- MCResourceOf
    MaxPersons = 2
    PageSize = 1
    MaxChanges = 3
    MaxSyncs = 3
    Instances = {"i1", "i2"}
    Accounts = {"c1"}
    Scopes = {"s1", "s2"}
    ProviderTypes = {"immich", "nextcloud"}
    None = None
    Registry <- MCRegistry
    Bindings <- MCBindings
    ExternalObjects = {"x"}
    MaxIdentityWrites = 4
    MaxSources = 2
    MaxVersion = 1
    MaxContexts = 2
    MaxDecisions = 2
    Unset = Unset
    Nobody = Nobody
    Pipelines <- MCPipelines
    WriterUnits <- MCWriterUnits
    Chain <- MCChain
    ProviderOf <- MCProviderOf
    ProviderOfScope <- MCProviderOfScope
    LooksAgain = {"provider.nextcloud.incremental", "provider.immich.sync"}
    Qualification <- MCQualification
    Schedules <- MCSchedules
    MaxRuns = 4
    MaxFaults = 2
    MaxStarts = 1
SPECIFICATION MCSpec
INVARIANTS
    PeopleWellFormed
    ScopeIsolation
    CutoverIsSound
PROPERTIES
    PeopleScanIsSound
    RelationsMirror
    TransitionsCopy
    ScopedStateAdvances
    ScopesFlipUnderLock
    AttemptsEnd
CHECK_DEADLOCK FALSE
