SPECIFICATION InventorySpec
CONSTANTS
    Null = Null
    Flaws <- MCFlaws
    Repositories <- MCRepositories
    DaylightEnds = 1
    MaxInstant = 3
    MaxEvents = 2
    MaxReports = 2
CHECK_DEADLOCK FALSE
INVARIANTS FeedTypeOK TwoFormatsOneIssue TwinPipelinesAgree AlertIdsNameOneFlaw OneFlawOneKey StatusFollowsTheSource SameFlawLinks FindingsReachTheirRepository UpdatesKeepTheirOrder
