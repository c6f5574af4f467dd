SPECIFICATION GateFairSpec
CONSTANTS
    NoResolution = NoResolution
    Unreported = Unreported
    NoRow = NoRow
    r1 = r1
    Issues = {i1}
    SecurityIssues = {i1}
    Natives <- MCNatives
    StatusYml <- MCStatusYml
    MaxRetries = 0
    MaxFaults = 0
    Apps = {a1}
    Repos = {r1}
    RepoOf <- MCRepoOf
    SeverityYml <- MCSeverityYml
    Candidates = {i1}
    PolicyThreshold = "severe"
PROPERTIES FixedIssuesStopBlocking
