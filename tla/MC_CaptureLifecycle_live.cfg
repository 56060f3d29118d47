SPECIFICATION FairSpec
CONSTANTS
    c1 = c1
    c2 = c2
    s1 = s1
    s2 = s2
    l1 = l1
    l2 = l2
    AnyInterface = any
    Servers = {s1, s2}
    Links = {l1, l2}
    Captures = {c1}
    Requests <- OneLink
    Deleters = {1, 2}
    MaxConcurrent = 1
    MaxRestarts = 1
INVARIANTS
    DeleteStaysDeleted
PROPERTIES
    EveryCaptureEnds
    DeleteEnds
CHECK_DEADLOCK FALSE
