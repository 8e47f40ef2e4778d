\* A retry, a signal, a child that may fail, no nudge: who is left behind.
CONSTANTS
    LaunchRetries = 1
    Nudge = FALSE
    Policies = {"wall", "no_work", "terminal"}
    MaxSignals = 1
    BadShapes = TRUE
    PartialLines = TRUE
    ServerMayFail = TRUE
SPECIFICATION Spec
INVARIANT Reaped
PROPERTY ImplementsDelegation
CHECK_DEADLOCK FALSE
