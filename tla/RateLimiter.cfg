SPECIFICATION FairSpec
CONSTANTS
    t1 = t1
    t2 = t2
    t3 = t3
    t4 = t4
    Task <- MCTask
    Interval = 2
    Rereads = FALSE
    Horizon = 7
INVARIANTS
    StartsAreCapped
PROPERTIES
    ImplementsRateCap
    EveryTaskPasses
