SPECIFICATION FairSpec
CONSTANTS
    p1 = p1  p2 = p2  p3 = p3
    f1 = f1  f2 = f2
    Procs <- TwoProcs
    Fixture <- TwoFiles
    MaxCalls = 2
    Faults <- CancelOnly
PROPERTIES CommitKept
