SPECIFICATION GoldSpec
CONSTANTS
    Null = Null
    UNMAPPED = "__UNMAPPED__"
    CanonicalScopes <- MCScopes
    CallSites <- MCCallSites
    Values <- MCValues
    Bases <- MCValues
    Below <- MCNoneBelow
    MaxDays = 1
    MaxRules = 1
    MaxTime = 2
    OwaspLists <- OWASP_2021
    Repositories = {"r1"}
    threshold_days = 1
    NeverScanned = NeverScanned
    WeekLength = 7
    Findings <- MCFindings
    Batches <- MCBatches
    LinkRows <- MCLinkRows
    Mutes <- MCMutes
    MaxTransforms = 2
CHECK_DEADLOCK FALSE
INVARIANTS HeatmapWithinPosture OverlapMatchesDedup MttrEnginesOrdered
PROPERTIES ReplaysAddNoEvidence CoverageFollowsEvidence
