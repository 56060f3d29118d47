SPECIFICATION Spec
CONSTANTS
    admin = admin
    ann = ann
    c1 = c1
    c2 = c2
    s1 = s1
    s2 = s2
    n1 = n1
    n2 = n2
    Admin = admin
    Users = {admin, ann}
    Captures = {c1}
    SavedIds = {s1}
    Names = {n1}
    Account = Account
    MaxViews = 2
    MaxFilters = 1
    MaxRows = 1
    MaxPosition = 0
    MaxRestarts = 0
PROPERTIES
    ViewsGoOnlyWithCapture
CHECK_DEADLOCK FALSE
