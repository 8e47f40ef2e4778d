\* One attempt, four lines: an orphan, a start, a repair, a second end.
CONSTANTS
    Steps = {step10}
    Step10 = step10
    StepTargets = {step10}
    MaxAttempt = 0
    MaxLines = 4
SPECIFICATION Spec
INVARIANT AttemptEndsOnce
CHECK_DEADLOCK FALSE
