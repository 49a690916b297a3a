SPECIFICATION Spec
CONSTANTS
    Helpers <- NoHelper
    Killers <- RunKillers
    MaxLines = 1
    EventBuffer = 1
    NumValidators = 1
    Faults <- Clash
INVARIANT OutcomeRecorded
CHECK_DEADLOCK FALSE
