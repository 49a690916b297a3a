SPECIFICATION Spec
CHECK_DEADLOCK FALSE
CONSTANTS
    Commands = {"changes", "capture", "migrate", "validate", "trace", "usage", "history", "cohort", "globs", "snapshot"}
    Paths = {"a", "b", "i"}
    Contents = {"c1", "c2"}
    None = None
    Base <- MCBase
    Ignored = {"i"}
    Ids = {"s0", "s1", "s2", "s3", "s4"}
    Primary = "s0"
    MaxSessionDepth = 2
    Escaping = {"s4"}
    Delegations <- MCDelegations
    Openers = {"old", "p1", "p2"}
    Newest = 4
    Known <- MCKnown
    OldVersions = {0, 2}
    SensitiveKeys = {"api_key"}
    Trees <- MCTrees
    Worktrees <- MCWorktrees
    Ends <- MCEnds
    Lines <- MCLines
    MaxLines = 4
    Messages <- MCMessages
    MaxMessages = 4
    Sanitize <- MCSanitize
    Recorded <- MCRecorded
    MaxRuns = 5
    Selected <- MCSelected
    Arms <- MCArms
    Overlays <- MCOverlays
    Cells <- MCCells
    CellRuns <- MCCellRuns
    StoredProfiles <- MCStoredProfiles
    Names = {"**", "*", "a", "b"}
    MaxSegments = 3
    Snapshots <- MCSnapshots
    MaxSnapshots = 3
    Options <- MCOptions
    Disk <- MCDisk
INVARIANTS
    NothingMissed
    CaptureExact
    SchemaExact
    OneGetsThrough
    TraceMatchesMetrics
    UsageAddsUp
    ScoredOnItsWork
    OneChangeOneDiff
    RepeatShowsTheSame
    CompareIsOrdered
    RankedIsEarned
    CostAgrees
    GlobsAgree
