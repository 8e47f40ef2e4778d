\* Three rounds need four strictly decreasing counts: 3, 2, 1, 0.
CONSTANTS
    Files = {f1, f2}
    MaxFixRounds = 3
    MaxBlocking = 3
    MaxCrashes = 2
    Clean = FALSE
    NoFile = NoFile
    Torn = Torn
SPECIFICATION Spec
INVARIANTS TypeOK LaunchIsReshaped MisalignedIsRejected
PROPERTIES ImplementsFixRounds ArchivesAreFinal JustificationSticks
SYMMETRY FileSymmetry
CHECK_DEADLOCK FALSE
