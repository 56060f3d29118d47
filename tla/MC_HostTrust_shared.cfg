SPECIFICATION Spec
CONSTANTS
    s1 = s1
    s2 = s2
    r1 = r1
    r2 = r2
    ann = ann
    bob = bob
    k1 = k1
    k2 = k2
    here = here
    there = there
    Users = {ann, bob}
    Endpoints = {here, there}
    Keys = {k1, k2}
    ServerIds = {s1, s2}
    RequestIds = {r1, r2}
    NoUser = NoUser
    NoServer = NoServer
    NoEndpoint = NoEndpoint
    NoKeys = NoKeys
    MaxRestarts = 1
SYMMETRY TrustSymmetry
CONSTRAINT Scope
INVARIANTS
    TrustHasSubject
    ChecksAreOfTheRow
    RollsBackItsOwn
PROPERTIES
    SharedTrustKept
CHECK_DEADLOCK FALSE
