\* One attempt with a nudge and a child that may fail: what exit 0 means,
\* and that the driver ends.
CONSTANTS
    LaunchRetries = 0
    Nudge = TRUE
    Policies = {"wall"}
    MaxSignals = 0
    BadShapes = FALSE
    PartialLines = TRUE
    ServerMayFail = TRUE
SPECIFICATION FairSpec
INVARIANTS TypeOK SuccessIsEarned
PROPERTY Terminates
CHECK_DEADLOCK FALSE
