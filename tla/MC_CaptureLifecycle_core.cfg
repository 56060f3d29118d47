SPECIFICATION Spec
CONSTANTS
    c1 = c1
    c2 = c2
    s1 = s1
    s2 = s2
    l1 = l1
    l2 = l2
    AnyInterface = any
    Servers = {s1, s2}
    Links = {l1, l2}
    Captures = {c1, c2}
    Requests <- Mixed
    Deleters = {1}
    MaxConcurrent = 2
    MaxRestarts = 1
INVARIANTS
    OneCapturePerLink
    ConnectionHasOwner
    CompletedHasFile
PROPERTIES
    RefinesRecord
SYMMETRY PairSymmetry
CHECK_DEADLOCK FALSE
