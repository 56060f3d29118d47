SPECIFICATION CheckSpec
CONSTANTS
    Ports = {1, 2, 3, 4, 5}
    Other = none
    MaxCandidates = 3
    Expressions <- MCExpressions
    MaxPerMinute = 1
INVARIANTS
    NeverWronglyEmpty
    CrossMeansBetween
    MissesNothing
