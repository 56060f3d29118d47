SPECIFICATION WalkSpec
CONSTANTS
    Lengths = {26, 96}
    Claims = {60}
    Sizes = {0, 1, 5}
    MaxDepth = 1
    MaxLoops = 1
    Contents <- MCContents
    Top = 3
INVARIANTS
    WithinCaptured
    FieldsAreDisjoint
    AsWrongAsBefore
CHECK_DEADLOCK FALSE
