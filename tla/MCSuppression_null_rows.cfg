SPECIFICATION Spec
CONSTANTS
    org = org
    org_repo = org_repo
    org_re = org_re
    Null = Null
    CanonicalScopes <- MCScopes
    CallSites <- MCCallSites
    Values <- MCValues
    Bases <- MCBases
    Below <- MCBelow
    MaxDays = 2
    MaxRules = 2
    MaxTime = 3
INVARIANTS OnlyMatchedRowsAreHidden

CHECK_DEADLOCK FALSE
