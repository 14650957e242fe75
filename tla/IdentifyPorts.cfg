\* A scope that allows no industrial port.
CONSTANTS
    h1 = h1
    h2 = h2
    Host <- MCHost
    Port <- MCPort
    OTPort <- MCOTPort
    IoTPort <- MCIoTPort
    Probe <- MCProbe
    Configs <- NoIndustrialPort
    Interval = 0
    Horizon = 0
SPECIFICATION Spec
INVARIANTS
    OnlyListedPorts
