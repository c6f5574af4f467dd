SPECIFICATION SonarFairSpec
CONSTANTS
    NoResolution = NoResolution
    Unreported = Unreported
    Issues = {i1, smell}
    SecurityIssues = {i1}
    Natives <- MCNatives
    StatusYml <- MCStatusYml
    SeverityYml <- MCSeverityYml
    MaxRetries = 1
    MaxFaults = 2
INVARIANTS FindingsHaveEvidence RunDelivers NothingStaysInBronze
PROPERTIES EveryIssueArrives
