\* _s7_exchange: three requests; the header is two bytes of five.
CONSTANTS
    Rounds = 3
    Header = 2
    Confirm = 3
    Size = 5
SPECIFICATION FairSpec
INVARIANTS
    TypeOK
    SlotReleased
    InStep
PROPERTIES
    ProbeEnds
