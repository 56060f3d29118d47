SPECIFICATION Spec
CONSTANTS
    admin = admin
    ann = ann
    c1 = c1
    c2 = c2
    s1 = s1
    s2 = s2
    n1 = n1
    n2 = n2
    Admin = admin
    Users = {admin, ann}
    Captures = {c1, c2}
    SavedIds = {s1, s2}
    Names = {n1, n2}
    Account = Account
    MaxViews = 2
    MaxFilters = 1
    MaxRows = 2
    MaxPosition = 2
    MaxRestarts = 1
SYMMETRY LibrarySymmetry
INVARIANTS
    NoLostFile
    CompletedIsStored
    ViewsBelongToOwner
    TabsAreOrdered
    NoRowOutlivesItsUser
CHECK_DEADLOCK FALSE
