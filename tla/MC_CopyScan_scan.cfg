SPECIFICATION ScanSpec
CONSTANTS
    a = a
    b = b
    c = c
    d = d
    tcp = tcp
    anon = anon
    k = k
    Links = {l1, l2, l3}
    Packets <- AFewPackets
    NotIp = NotIp
    NatKey <- Keys
    NoKey = NoKey
    Window = 1
    PruneEvery = 2
    LinkViews = 1
    MaxFrames = 4
    MaxTime = 2
SYMMETRY Symmetry
INVARIANTS
    CopiesAreRepeats
    EveryRepeatIsMarked
    ForgettingChangesNothing
    ViewsAreOfTheirFrame
CHECK_DEADLOCK FALSE
