SPECIFICATION Spec
CONSTANTS
    p1 = p1  p2 = p2  p3 = p3
    f1 = f1  f2 = f2
    Procs <- ThreeProcs
    Fixture <- TwoFiles
    MaxCalls = 1
    Faults <- AllFaults
SYMMETRY Symmetry
INVARIANTS TypeOK BaselineExact MutualExclusion
