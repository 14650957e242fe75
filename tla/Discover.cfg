\* Batches of two hosts, one or two connections, a tick between two starts.
CONSTANTS
    Address <- Addresses
    Configs <- SomeConfigs
    BatchSize = 2
    MaxTargets = 3
    Workers <- SomeWorkers
    Interval = 1
    Horizon = 3
SPECIFICATION Spec
INVARIANTS
    TypeOK
    SweepComplete
    SweepBounded
