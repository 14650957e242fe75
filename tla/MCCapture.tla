----------------------------- MODULE MCCapture -----------------------------
EXTENDS Capture

P(src, dst, layer, sport, dport, content, fromServer) ==
    [ip |-> TRUE, decodable |-> TRUE, src |-> src, dst |-> dst, src_mac |-> "mac " \o src,
     dst_mac |-> "mac " \o dst, layer |-> layer, sport |-> sport, dport |-> dport,
     content |-> content, fromServer |-> fromServer]

\* A client c that uses a server s in all the ways the detectors know, an
\* industrial device d, packets that cannot be read or name nobody, one of a
\* host to itself that tells one hardware address, and an echoed Basic header.
SomePackets ==
    {P("c", "s", "tcp", 44818, 21, "user", FALSE),
     P("c", "s", "tcp", 50000, 21, "pass", FALSE),
     P("s", "c", "tcp", 23, 44818, "prompt", TRUE),
     P("c", "s", "tcp", 50000, 143, "login", FALSE),
     P("c", "s", "tcp", 50000, 8080, "basic", FALSE),
     P("s", "c", "udp", 161, 50000, "snmp custom", TRUE),
     P("c", "d", "udp", 50000, 47808, "noise", FALSE),
     P("d", "s", "tcp", 50000, 1883, "empty", FALSE),
     P("d", "c", "none", 0, 0, "noise", FALSE),
     [P("d", "s", "tcp", 50000, 21, "user", FALSE) EXCEPT !.decodable = FALSE],
     [P("e", "e", "tcp", 50000, 21, "user", FALSE) EXCEPT !.ip = FALSE],
     [P("d", "s", "tcp", 50001, 587, "auth plain", FALSE) EXCEPT !.src_mac = "mac router"],
     [P("d", "d", "udp", 50000, 161, "snmp public", FALSE) EXCEPT !.dst_mac = ""],
     P("s", "c", "tcp", 8080, 50000, "basic", TRUE)}

SomeOT == {44818, 47808}
SomeIoT == {1883}
=============================================================================
