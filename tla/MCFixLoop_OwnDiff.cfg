\* One fix round after a first turn that left its changes uncommitted.
CONSTANTS
    Files = {f1, f2}
    MaxFixRounds = 1
    MaxBlocking = 1
    MaxCrashes = 0
    Clean = TRUE
    NoFile = NoFile
    Torn = Torn
SPECIFICATION Spec
INVARIANT AlignedByOwnDiff
CHECK_DEADLOCK FALSE
