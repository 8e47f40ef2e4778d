\* A completed turn whose last lines sit in the text buffer.
CONSTANTS
    LaunchRetries = 0
    Nudge = FALSE
    Policies = {}
    MaxSignals = 0
    BadShapes = FALSE
    PartialLines = FALSE
    ServerMayFail = FALSE
SPECIFICATION FairSpec
PROPERTY CompletedTurnEnds
CHECK_DEADLOCK FALSE
