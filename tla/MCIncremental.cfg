\* A Provider with a feed or one searched by time, runs with and without the
\* formal lock; and a search of three assets in pages of one.
SPECIFICATION MCSpec
CONSTANTS
    Obj = {x}
    Worker = {v, w}
    Null = Null
    PageLimit = 1
    Overlap = 2
    MaxLag = 1
    MaxAhead = 1
    MaxBehind = 1
    MaxChanges = 2
    MaxTime = 2
    MaxVersion = 4
    Asset = {a, b, c}
    PageSize = 1
    MaxMoves = 4
INVARIANTS
    NothingLost
    SearchIsSound
PROPERTIES
    CheckpointNeverRegresses
    LatchOutlivesItsGap
SYMMETRY WorkerSymmetry
