\* Two turns, three tasks, and two of new contracts and faults.
CONSTANTS
    x = x
    y = y
    Task = {1, 2, 3}
    BlockedBy <- MCBlockedBy
    NoTask = 0
    Acceptance = {x}
    Adversarial = {y}
    Shaped <- MCShaped
    Claims = {x}
    NeedsReview = {x}
    Missing = Missing
    Wake = {w1, w2}
    NoWake = NoWake
    Backlogs <- MCBacklogs
    Grades <- MCGrades
    MaxEvents = 2
SPECIFICATION Spec
SYMMETRY Turns
INVARIANTS TypeOK LedgerAndBacklogTogether LedgerOnce OneInProgress MergedIsGraded MarkerFollowsBacklog CloseGapIsReported QuietIsClean PinPair
PROPERTY ImplementsBoard
CHECK_DEADLOCK FALSE
