SPECIFICATION FairSpec
CONSTANTS
    Downloads = {d1}
    Nobody = nobody
    Tickets = {t1}
    Crowd = {t1, t2}
    NoTicket = none
    Frames = 3
    Pipe = 1
    Limit = 1
INVARIANTS
    CleanMeansMasked
    SummaryIsTrue
PROPERTIES
    DownloadsEnd
CHECK_DEADLOCK FALSE
