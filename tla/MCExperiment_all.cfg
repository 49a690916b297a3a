SPECIFICATION Spec
CONSTANTS
    Commands <- Both
    Kind <- BothKind
    Arms <- BothArms
    Hash <- BothHash
    Tasks <- BothTasks
    Repeat <- BothRepeat
    Outcomes <- BothOutcomes
    Faults <- BothFaults
INVARIANT TypeOK
INVARIANT Interleaved
INVARIANT DoneIsComplete
INVARIANT AttributedToItsArm
INVARIANT TruncatedReadsAlike
INVARIANT CancelStops
CHECK_DEADLOCK FALSE
