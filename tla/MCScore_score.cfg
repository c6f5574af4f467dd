SPECIFICATION FairScoreSpec
CONSTANTS
    Null = Null
    NotFound = NotFound
    UNMAPPED = "__UNMAPPED__"
    CanonicalScopes = {"application_id", "repository_id"}
    CallSites <- MCCallSites
    Values <- MCValues
    Bases <- MCValues
    Below <- MCNoneBelow
    MaxDays = 1
    MaxRules = 1
    MaxTime = 2
    FindingRows <- MCFindingRows
    LinkRows <- MCLinkRows
    Muting <- MCMuting
    Parameters <- MCParameters
    MaxRuns = 2
CHECK_DEADLOCK FALSE
INVARIANTS ScoreTypeOK ScoreNeverInflated
PROPERTIES OpenCountsWithinTheRun EveryFindingAppears MutedApplicationsVanish ScoresSettle
