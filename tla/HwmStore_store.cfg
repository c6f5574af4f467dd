SPECIFICATION Spec
CONSTANTS
    None = None
    Missing = Missing
    Blank = Blank
    Garbled = Garbled
    Clients = {c1, c2}
    Names = {semgrep}
    Subkeys = {r1, r2}
    Marks = {m1, m2}
    MaxSets = 3
    MaxCrashes = 2
CHECK_DEADLOCK FALSE
INVARIANTS MarksWereWritten
PROPERTIES LoneWriterIsAtomic
