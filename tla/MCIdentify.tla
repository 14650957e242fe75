----------------------------- MODULE MCIdentify -----------------------------
(* Two hosts; probes of an industrial protocol over TCP and UDP on one     *)
(* port, another industrial one over TCP, an IoT one and SNMP.             *)
EXTENDS Identify
CONSTANTS h1, h2

MCHost == {h1, h2}
MCOTPort == {502, 44818}
MCIoTPort == {554}
MCPort == {161, 502, 554, 44818}

modbus == [name |-> "modbus", port |-> 502, transport |-> "tcp", ot |-> TRUE, safe |-> TRUE]
enip == [name |-> "ethernetip", port |-> 44818, transport |-> "tcp", ot |-> TRUE, safe |-> TRUE]
enipUdp == [name |-> "ethernetip-udp", port |-> 44818, transport |-> "udp", ot |-> TRUE, safe |-> TRUE]
rtsp == [name |-> "rtsp", port |-> 554, transport |-> "tcp", ot |-> FALSE, safe |-> TRUE]
snmp == [name |-> "snmp", port |-> 161, transport |-> "udp", ot |-> FALSE, safe |-> FALSE]
MCProbe == {modbus, enip, enipUdp, rtsp, snmp}

Command(requested, allowed, profile, otSafe, inScope) ==
    [command |-> "identify", requested |-> requested, allowed |-> allowed,
     open |-> [h \in MCHost |-> {}], profile |-> profile, otSafe |-> otSafe,
     inScope |-> inScope]

Audit(open1, open2, allowed, otSafe) ==
    [command |-> "audit", requested |-> {}, allowed |-> allowed,
     open |-> [h \in MCHost |-> IF h = h1 THEN open1 ELSE open2],
     profile |-> "auto", otSafe |-> otSafe, inScope |-> MCHost]

(* identify: an industrial and an IoT protocol; three industrial ports     *)
(* with SNMP; an IoT one, on two hosts; a scope without industrial ports;  *)
(* a forced profile, twice; --ot-safe; nothing allowed.                    *)
IdentifyConfigs ==
    {Command({502, 554}, MCPort, "auto", FALSE, {h1}),
     Command({161, 502, 44818}, MCPort, "auto", FALSE, {h1}),
     Command(MCIoTPort, MCPort, "auto", FALSE, MCHost),
     Command(MCPort, {161, 554}, "auto", FALSE, {h2}),
     Command(MCOTPort, {502}, "iot", FALSE, {h1}),
     Command({44818, 554}, MCPort, "iot", FALSE, {h1}),
     Command(MCIoTPort, MCPort, "it", TRUE, {h1}),
     Command(MCIoTPort, {502}, "auto", FALSE, MCHost)}

(* full and walk: an industrial and an ordinary host; an IoT host and one  *)
(* with nothing open; an industrial and an IoT host; a scope that leaves   *)
(* one port; --ot-safe.                                                    *)
AuditConfigs ==
    {Audit({502, 554}, {}, MCPort, FALSE), Audit({554}, {161}, MCPort, FALSE),
     Audit({502}, {554}, {502, 554, 44818}, FALSE),
     Audit({554}, {}, {554}, FALSE), Audit({161}, {554}, {161, 554}, TRUE)}

AllConfigs == IdentifyConfigs \cup AuditConfigs
NoIndustrialPort == {Command(MCPort, {161, 554}, "auto", FALSE, {h2})}
=============================================================================
