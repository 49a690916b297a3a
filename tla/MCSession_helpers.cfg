SPECIFICATION SessionSpec
CONSTANTS
    Helpers <- OneHelper
    Killers <- OneKiller
    MaxLines = 1
    EventBuffer = 1
    Faults <- NoFaults
INVARIANT KillReachesAll
CHECK_DEADLOCK FALSE
