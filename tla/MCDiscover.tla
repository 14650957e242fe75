---------------------------- MODULE MCDiscover ----------------------------
EXTENDS Discover, TLC

Addresses == 0 .. 7

Range4(first, size) == [kind |-> "range", version |-> 4, first |-> first, size |-> size]

Base ==
    [method |-> "fast", target |-> Range4(0, 4), authorized |-> TRUE, ports |-> 2,
     privileged |-> FALSE, installed |-> FALSE, scapy |-> TRUE]

\* A /29 is one host too many, its IPv6 counterpart too; a /30 has two hosts,
\* three over IPv6; a pair and a single address have no broadcast address.
SomeConfigs ==
    {[Base EXCEPT !.privileged = TRUE, !.installed = TRUE],
     [Base EXCEPT !.privileged = TRUE, !.ports = 1],
     [Base EXCEPT !.target = [Range4(4, 4) EXCEPT !.version = 6], !.method = "walk"],
     [Base EXCEPT !.target = Range4(2, 2), !.ports = 3],
     [Base EXCEPT !.target = Range4(5, 1), !.method = "walk", !.ports = 3],
     [Base EXCEPT !.method = "both", !.privileged = TRUE],
     [Base EXCEPT !.method = "both", !.target = Range4(2, 1), !.scapy = FALSE],
     [Base EXCEPT !.method = "ping", !.target = [Range4(0, 4) EXCEPT !.version = 6]],
     [Base EXCEPT !.method = "arp"], [Base EXCEPT !.method = "arp", !.privileged = TRUE],
     [Base EXCEPT !.target = Range4(0, 8)],
     [Base EXCEPT !.method = "both", !.target.kind = "name"],
     [Base EXCEPT !.method = "ping", !.ports = 0]}
    \cup {[Base EXCEPT !.authorized = FALSE, !.method = m] : m \in Method}
    \cup {[Base EXCEPT !.ports = 0, !.method = m] : m \in Method}

SomeWorkers == [m \in Method |-> IF m \in {"ping", "both"} THEN 1 ELSE 2]
=============================================================================
