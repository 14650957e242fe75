\* Six kinds of probe, three local ports, every device.
CONSTANTS
    p1 = p1
    p2 = p2
    p3 = p3
    Port = {p1, p2, p3}
    Kinds <- MCKinds
SPECIFICATION Spec
INVARIANTS
    TypeOK
    ProbeHonest
SYMMETRY PortsAlike
