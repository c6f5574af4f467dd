SPECIFICATION Spec
CONSTANTS
    Connectors = {"sonarqube", "owasp_zap", "gitlab", "artefacts"}
    Items = {i1, i2, i3, i4}
    Purgeable = {i1, i2, i3, i4}
    PageSize = 2
    Cap = 3
    MaxRetries = 1
    MaxTime = 2
    MaxRuns = 2
SYMMETRY MCSymmetry
CHECK_DEADLOCK FALSE
INVARIANTS NothingBelowTheMark EachVersionOnce WalksAreWhole
