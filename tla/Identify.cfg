\* Every configuration, with a start slot every three tenths of a second.
CONSTANTS
    h1 = h1
    h2 = h2
    Host <- MCHost
    Port <- MCPort
    OTPort <- MCOTPort
    IoTPort <- MCIoTPort
    Probe <- MCProbe
    Configs <- AllConfigs
    Interval = 3
    Horizon = 3
SPECIFICATION FairSpec
INVARIANTS
    TypeOK
    Interlocked
    OTPaced
PROPERTIES
    IdentificationEnds
