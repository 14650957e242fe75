\* Fourteen kinds of packet, captures of at most three.
CONSTANTS
    Packets <- SomePackets
    OTPorts <- SomeOT
    IoTPorts <- SomeIoT
    MaxPackets = 3
SPECIFICATION Spec
INVARIANTS
    TypeOK
    InventoryAgrees
    SecretsAttributed
