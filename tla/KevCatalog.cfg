\* Two processes, three loads, a copy is fresh for two hours.
CONSTANTS
    p1 = p1
    p2 = p2
    Proc <- TwoProcs
    Foreign <- AnyJSON
    MaxAge = 2
    Loads = 3
    Horizon = 3
SPECIFICATION Spec
INVARIANTS
    TypeOK
PROPERTIES
    Current
    DownloadCounts
SYMMETRY ProcSymmetry
CHECK_DEADLOCK FALSE
