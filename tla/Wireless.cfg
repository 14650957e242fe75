\* Eleven radios, three signal strengths, at most two sightings
\* and two pairs of addresses in data frames.
CONSTANTS
    Commands <- SomeCommands
    Radios <- AllRadios
    Stations <- AllStations
    Broadcast <- Everyone
    Signals <- SomeSignals
    BleDevices <- SomeBle
    MaxPairs = 2
    MaxSeen = 2
SPECIFICATION FairSpec
INVARIANTS
    TypeOK
    InventoryFaithful
    VerdictAgrees
PROPERTIES
    ScanEnds
