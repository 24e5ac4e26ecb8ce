CONSTANTS
    None = None
    Format <- MCFormat
    Blank = {"b0"}
    Workers = {w1, w2}
    Resources = {1, 2}
    Contents <- MCContents
    FormatSets <- MCFormatSets
    Metas <- MCMetas
    Moving = {1}
    BatchSize = 1
    MaxChanges = 2
    MaxCrashes = 1
    NoSize = NoSize
    MaxSource = 4
    MaxEntries = 2
    MaxTotal = 4
    MaxEntry = 3
    MaxBody = 2
    MaxRatio = 2
    MaxUnits = 2
    MaxChars = 3
    MaxStored = 6
    Marker = 2
    Chunk = 2
SPECIFICATION Spec
INVARIANTS
    CompletedMatchesStatements
    OneOwner
    ExtractionIsSound
PROPERTIES
    BatchIsEnriched
    DocumentEnds
CHECK_DEADLOCK FALSE
