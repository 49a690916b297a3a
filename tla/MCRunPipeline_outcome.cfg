SPECIFICATION FairSpec
CONSTANTS
    Helpers <- NoHelper
    Killers <- RunKillers
    MaxLines = 1
    EventBuffer = 1
    NumValidators = 1
    Faults <- Missing
INVARIANT KilledNeverScored
INVARIANT InterruptedNotScored
INVARIANT ScoredRunIsWhole
INVARIANT OutcomeRecorded
PROPERTY RunReturns
CHECK_DEADLOCK FALSE
