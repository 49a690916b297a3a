SPECIFICATION Spec
CONSTANTS
    Commands <- TwoRuns
    Kind <- RunKind
    Arms <- RunArms
    Hash <- RunHash
    Tasks <- RunTasks
    Repeat <- RunRepeat
    Outcomes <- AnyOutcome
    Faults <- NoFaults
INVARIANT IdentityUsable
CHECK_DEADLOCK FALSE
