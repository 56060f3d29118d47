SPECIFICATION Spec
CONSTANTS
    Captures = {c1, c2}
    Uploads = {c2}
    Keys = {k1, k2}
    NoKey = NoKey
    Modes = {"off", "key", "passphrase"}
    Passphrases = {k1, k2}
    Unlockers = {u1,u2}
    NoFile = NoFile
    Damaged = Damaged
    NoHeader = NoHeader
INVARIANTS
    ContentKept
    OneKeyPerVolume
PROPERTIES
    RotationComplete
CHECK_DEADLOCK FALSE
