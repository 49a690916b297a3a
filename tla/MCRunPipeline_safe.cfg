SPECIFICATION Spec
CONSTANTS
    Helpers <- NoHelper
    Killers <- RunKillers
    MaxLines = 1
    EventBuffer = 1
    NumValidators = 1
    Faults <- IoOrClash
INVARIANT TypeOK
INVARIANT ChangeSetIsTheAgents
INVARIANT NoOrphan
CHECK_DEADLOCK FALSE
