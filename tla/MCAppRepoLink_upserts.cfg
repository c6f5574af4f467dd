SPECIFICATION Spec
CONSTANTS
    c1 = c1
    c2 = c2
    NoCode = NoCode
    Apps = {a1}
    Repos = {r1, r2}
    Codes <- MCCodes
    Names <- MCTwoNames
    MaxCopies = 1
    MaxRetries = 1
    MaxClock = 2
INVARIANTS CompleteAfterQuietRun KeyUnique
PROPERTIES FreshEvidence RefinesRegistry
