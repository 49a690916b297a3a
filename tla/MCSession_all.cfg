SPECIFICATION FairSessionSpec
CONSTANTS
    Helpers <- NoHelper
    Killers <- OneKiller
    MaxLines = 2
    EventBuffer = 1
    Faults <- NoFaults
INVARIANT SessionTypeOK
INVARIANT DeliveredInOrder
INVARIANT DrainedIsComplete
INVARIANT WaitLeavesNothing
PROPERTY ImplementsEventStream
PROPERTY KillEnds
PROPERTY WaitReturns
CHECK_DEADLOCK FALSE
