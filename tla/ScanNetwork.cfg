\* Eight configurations, two ticks between starts.
SPECIFICATION FairSpec
CONSTANTS
    u1 = u1
    u2 = u2
    u3 = u3
    itPort = itPort
    otPort = otPort
    Port <- MCPort
    OTPort <- MCOTPort
    Unit <- ThreeUnits
    Configs <- MixedConfigs
    Interval = 2
    Horizon = 4
INVARIANTS
    TypeOK
    OTSafe
    SlotsConserved
    RateHonoured
PROPERTIES
    ScanEnds
