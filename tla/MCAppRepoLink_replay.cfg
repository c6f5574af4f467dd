SPECIFICATION FairSpec
CONSTANTS
    c1 = c1
    c2 = c2
    NoCode = NoCode
    Apps = {a1}
    Repos = {r1}
    Codes <- MCOneCode
    Names <- MCOneName
    MaxCopies = 2
    MaxRetries = 2
    MaxClock = 2

PROPERTIES RowsAreFixed RunEnds
