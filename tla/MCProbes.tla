----------------------------- MODULE MCProbes ------------------------------
EXTENDS Probes, TLC

Kind(tries, mode, transport, any, slice) ==
    [tries |-> tries, mode |-> mode, transport |-> transport, any |-> any, slice |-> slice]

\* SNMP with three of its four communities and versions, NTP, DNP3 with
\* three of its six addresses, SMB; BACnet, EtherNet/IP, CoAP, SSDP and mDNS;
\* memcached, CharGen and the SSDP reflector.
MCKinds ==
    {Kind(3, "together", "udp", FALSE, 1), Kind(2, "first", "udp", TRUE, 2),
     Kind(3, "first", "tcp", FALSE, 1), Kind(2, "all", "tcp", FALSE, 2),
     Kind(1, "first", "udp", FALSE, 2), Kind(1, "first", "udp", TRUE, 2)}

PortsAlike == Permutations(Port)
=============================================================================
