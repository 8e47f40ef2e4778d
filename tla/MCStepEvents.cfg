\* Two steps, two attempts each, logs of up to four lines.
CONSTANTS
    Steps = {step6, step10}
    Step10 = step10
    StepTargets = {step10}
    MaxAttempt = 1
    MaxLines = 4
SPECIFICATION Spec
INVARIANTS TypeOK GateAgreesWithResume ProbeAgreesWithGate TerminalsAreAccounted
CHECK_DEADLOCK FALSE
