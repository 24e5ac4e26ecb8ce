CONSTANTS
    r1 = r1
    r2 = r2
    Runners = {r1, r2}
    NoRunner = NoRunner
    Unset = Unset
    Pipelines <- MCPipelines
    Dependencies <- MCDependencies
    Groups <- MCGroups
    MaxRuns = 3
    MaxChanges = 1
    MaxFaults = 1
    Detached = FALSE
    Uncovered = FALSE
SPECIFICATION Spec
INVARIANTS
    LockAndLedgerAgree
    ValidatedCoversInputs
PROPERTIES
    OnlyLostRunsAreInterrupted
SYMMETRY Symmetry
CHECK_DEADLOCK FALSE
