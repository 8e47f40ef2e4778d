\* contract.md: every exit path reaps, SIGINT and SIGTERM included.
CONSTANTS
    LaunchRetries = 1
    Nudge = FALSE
    Policies = {}
    MaxSignals = 1
    BadShapes = FALSE
    PartialLines = FALSE
    ServerMayFail = TRUE
SPECIFICATION Spec
INVARIANT EveryExitReaps
CHECK_DEADLOCK FALSE
