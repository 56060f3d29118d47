SPECIFICATION FairSpec
CONSTANTS
    WebRuns = {w1}
    Sweep = sweep
    CliRuns = {cli}
    Settings = {a}
    NoSettings = none
    Modes = {"key", "passphrase"}
    NoRun = norun
    MaxIssued = 3
    MaxRestarts = 1
INVARIANTS
    PairsMatch
    SavedOnSuccess
PROPERTIES
    ServedNeverOlder
    StoredGetsServed
CHECK_DEADLOCK FALSE
