SPECIFICATION Spec
CONSTANTS
    Users = {u1, u2}
    Sessions = {s1}
    Requests = {r1, r2}
    NoUser = nobody
    Secrets = {k1, k2}
    NoSecret = none
    MaxAttempts = 1
    Idle = 3
    WriteInterval = 2
    MaxStep = 2
INVARIANTS
    OneAdmin
    FailuresBounded
    IdleWindow
PROPERTIES
    CodesTakenOnce
SYMMETRY Symmetry
CONSTRAINT Scope
CHECK_DEADLOCK FALSE
