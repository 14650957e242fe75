------------------------------ MODULE Capture ------------------------------
(***************************************************************************)
(* Traffic that others send: PassiveSniffer.sniff_for of                   *)
(* discovery/passive.py, which watches an interface, and analyze_pcap and  *)
(* load_pcap of capture/pcap.py, which read a capture file.  All fold each *)
(* packet into the same inventory; analyze_pcap also looks for secrets     *)
(* sent in the clear.  A packet may be malformed, and the capture may      *)
(* break off at any of them: an interface that goes away, a torn file.     *)
(***************************************************************************)
EXTENDS Integers, Sequences, SequencesExt, FiniteSets

CONSTANTS
    Packets,    \* packets on the wire: records of PacketType
    OTPorts,    \* OT_PORTS of profiles.py
    IoTPorts,   \* IOT_PORTS
    MaxPackets  \* bound of the model: packets in a capture

Layer == {"tcp", "udp", "none"}

(* What the payload holds, as the detectors' expressions tell it apart.    *)
Content ==
    {"empty", "noise", "basic", "user", "pass", "prompt", "login", "auth plain",
     "auth login", "snmp public", "snmp private", "snmp custom"}

(* `fromServer' is what the capture does not say: which end is the server. *)
(* A packet that is not decodable raises where a field is read.            *)
PacketType ==
    [ip : BOOLEAN, decodable : BOOLEAN, src : STRING, dst : STRING, src_mac : STRING,
     dst_mac : STRING, layer : Layer, sport : Nat, dport : Nat, content : Content,
     fromServer : BOOLEAN]

(* _CREDENTIAL_PORTS, and the detector each of them has.                   *)
Detector ==
    [p \in {21, 23, 25, 110, 143, 161, 162, 587} |->
        CASE p = 21          -> "ftp"
          [] p = 23          -> "telnet"
          [] p \in {25, 587} -> "smtp"
          [] p = 110         -> "pop3"
          [] p = 143         -> "imap"
          [] OTHER           -> "snmp"]

CredentialPorts == DOMAIN Detector

(* The client's end of a connection has a port of its own, above those of  *)
(* the services.                                                           *)
ServerPort(pkt) == IF pkt.fromServer THEN pkt.sport ELSE pkt.dport

ClientPort(pkt) == IF pkt.fromServer THEN pkt.dport ELSE pkt.sport

ASSUME CaptureAssumption ==
    /\ \A pkt \in Packets : pkt \in PacketType
    /\ \A pkt \in Packets : ClientPort(pkt) \notin CredentialPorts
    /\ MaxPackets \in Nat

VARIABLES
    reader,       \* who reads: live (sniff_for), analyze or load
    pc,           \* start, reading, done or raised
    seen,         \* packets read, in order (history)
    hosts,        \* PassiveInventory._hosts
    credentials,  \* findings of scan_cleartext_credentials
    packet_count, \* packets counted by analyze_pcap
    open          \* the capture file is open

vars == <<reader, pc, seen, hosts, credentials, packet_count, open>>

TypeOK ==
    /\ reader \in {"live", "analyze", "load"}
    /\ pc \in {"start", "reading", "done", "raised"}
    /\ seen \in Seq(Packets)
    /\ \A h \in DOMAIN hosts :
          /\ DOMAIN hosts[h] = {"mac", "ports", "protocols", "is_ot", "is_iot"}
          /\ hosts[h].protocols \subseteq {"tcp", "udp"}
    /\ packet_count \in 0 .. Len(seen)
    /\ open <=> (pc = "reading" \/ pc = "raised") /\ reader # "live"
    /\ reader # "analyze" => credentials = <<>> /\ packet_count = 0
    /\ pc = "raised" => reader = "load"

Init ==
    /\ reader \in {"live", "analyze", "load"}
    /\ pc = "start"
    /\ seen = <<>>
    /\ hosts = <<>>
    /\ credentials = <<>>
    /\ packet_count = 0
    /\ open = FALSE

-----------------------------------------------------------------------------
BlankHost ==
    [mac |-> "", ports |-> {}, protocols |-> {}, is_ot |-> FALSE, is_iot |-> FALSE]

Host(inventory, ip) == IF ip \in DOMAIN inventory THEN inventory[ip] ELSE BlankHost

Put(inventory, ip, record) ==
    [h \in DOMAIN inventory \cup {ip} |-> IF h = ip THEN record ELSE inventory[h]]

(* One end of a packet: its address, and the protocol.                     *)
Touched(inventory, ip, mac, pkt) ==
    [Host(inventory, ip) EXCEPT
        !.mac = IF mac = "" THEN @ ELSE mac,
        !.protocols = IF pkt.layer = "none" THEN @ ELSE @ \cup {pkt.layer}]

(* Mutant: both ends get the port. *)
ObservationAtBothEnds(inventory, pkt) ==
    LET Ported(r) == [r EXCEPT !.ports = @ \cup {pkt.dport}]
        first == Put(inventory, pkt.src, Ported(Touched(inventory, pkt.src, pkt.src_mac, pkt)))
    IN  Put(first, pkt.dst, Ported(Touched(first, pkt.dst, pkt.dst_mac, pkt)))

(* add_observation: the destination gets the port, and the class it stands *)
(* for.  A class once given stays.                                         *)
AddObservation(inventory, pkt) ==
    LET first == Put(inventory, pkt.src, Touched(inventory, pkt.src, pkt.src_mac, pkt))
        dst == Touched(first, pkt.dst, pkt.dst_mac, pkt)
    IN  Put(first, pkt.dst,
            IF pkt.layer = "none" THEN dst
            ELSE [dst EXCEPT !.ports = @ \cup {pkt.dport},
                             !.is_ot = @ \/ pkt.dport \in OTPorts,
                             !.is_iot = @ \/ pkt.dport \in IoTPorts])

(* observe_packet and handle_packet: no address, or an error, no record.   *)
Observable(pkt) == pkt.ip /\ pkt.decodable

Handled(inventory, pkt) ==
    IF Observable(pkt) THEN AddObservation(inventory, pkt) ELSE inventory

-----------------------------------------------------------------------------
(* Mutant: a reply is scanned under the client's port. *)
RecordOfDestination(pkt) == [host |-> pkt.dst, port |-> pkt.dport]

(* _records_from_packet: the server's end of a packet, as far as the ports *)
(* tell it.                                                                *)
Record(pkt) ==
    IF pkt.dport \notin CredentialPorts /\ pkt.sport \in CredentialPorts
    THEN [host |-> pkt.src, port |-> pkt.sport]
    ELSE [host |-> pkt.dst, port |-> pkt.dport]

Recorded(pkt) == Observable(pkt) /\ pkt.layer # "none" /\ pkt.content # "empty"

(* What each detector finds: severity, and what it shows of the secret (a  *)
(* user's name, a default community, or nothing).                          *)
Found(protocol, content) ==
    CASE protocol \in {"ftp", "pop3"} /\ content = "user"      -> {<<"medium", "user">>}
      [] protocol \in {"ftp", "pop3"} /\ content = "pass"      -> {<<"high", "nothing">>}
      [] protocol = "telnet" /\ content = "prompt"             -> {<<"medium", "nothing">>}
      [] protocol = "smtp" /\ content = "auth plain"           -> {<<"medium", "user">>}
      [] protocol = "smtp" /\ content = "auth login"           -> {<<"medium", "nothing">>}
      [] protocol = "imap" /\ content = "login"                -> {<<"high", "user">>}
      [] protocol = "snmp" /\ content = "snmp public"          -> {<<"low", "community">>}
      [] protocol = "snmp" /\ content = "snmp private"         -> {<<"medium", "community">>}
      [] protocol = "snmp" /\ content = "snmp custom"          -> {<<"low", "nothing">>}
      [] OTHER                                                 -> {}

(* scan_cleartext_credentials of one packet: HTTP Basic on any port, the   *)
(* rest by the server's port.                                              *)
Findings(pkt) ==
    LET r == Record(pkt)
        byPort == IF r.port \in CredentialPorts THEN Found(Detector[r.port], pkt.content)
                  ELSE {}
        all == IF pkt.content = "basic" THEN {<<"high", "user">>} ELSE byPort
    IN  IF ~Recorded(pkt) THEN {}
        ELSE {[host |-> r.host, port |-> r.port, severity |-> f[1], shows |-> f[2]] : f \in all}

-----------------------------------------------------------------------------
(* No scapy, no root, no such file: an empty result. *)
Unavailable ==
    /\ pc = "start"
    /\ pc' = "done"
    /\ UNCHANGED <<reader, seen, hosts, credentials, packet_count, open>>

Begin ==
    /\ pc = "start"
    /\ pc' = "reading"
    /\ open' = (reader # "live")
    /\ UNCHANGED <<reader, seen, hosts, credentials, packet_count>>

(* The next packet, in the capture thread or in the loop over the file.    *)
Packet ==
    /\ pc = "reading"
    /\ Len(seen) < MaxPackets
    /\ \E pkt \in Packets :
          /\ seen' = Append(seen, pkt)
          /\ hosts' = Handled(hosts, pkt)
          /\ IF reader = "analyze"
             THEN /\ packet_count' = packet_count + 1
                  /\ credentials' = credentials \o SetToSeq(Findings(pkt))
             ELSE UNCHANGED <<packet_count, credentials>>
    /\ UNCHANGED <<reader, pc, open>>

(* Mutant: the file is not closed. *)
EndLeavingOpen ==
    /\ pc = "reading"
    /\ pc' = "done"
    /\ UNCHANGED <<reader, seen, hosts, credentials, packet_count, open>>

(* The window is over, or the file. *)
End ==
    /\ pc = "reading"
    /\ pc' = "done"
    /\ open' = FALSE
    /\ UNCHANGED <<reader, seen, hosts, credentials, packet_count>>

(* Mutant: what was read before an error is dropped. *)
BreakOffEmpty ==
    /\ pc = "reading"
    /\ reader # "load"
    /\ pc' = "done"
    /\ open' = FALSE
    /\ hosts' = <<>>
    /\ UNCHANGED <<reader, seen, credentials, packet_count>>

(* The capture breaks off: sniff_for and analyze_pcap return what there is *)
(* so far; load_pcap has no handler, and leaves the file to the collector. *)
BreakOff ==
    /\ pc = "reading"
    /\ pc' = IF reader = "load" THEN "raised" ELSE "done"
    /\ open' = (reader = "load")
    /\ UNCHANGED <<reader, seen, hosts, credentials, packet_count>>

Over == pc \in {"done", "raised"} /\ UNCHANGED vars

Next == Unavailable \/ Begin \/ Packet \/ End \/ BreakOff \/ Over

Spec == Init /\ [][Next]_vars

-----------------------------------------------------------------------------
To(ip) == {i \in DOMAIN seen : Observable(seen[i]) /\ seen[i].dst = ip}

At(ip) == {i \in DOMAIN seen : Observable(seen[i]) /\ ip \in {seen[i].src, seen[i].dst}}

(* The hardware address a packet tells of an end of it, the destination's  *)
(* first where both ends are one host.                                     *)
MacOf(ip, pkt) ==
    IF pkt.dst = ip /\ (pkt.src # ip \/ pkt.dst_mac # "") THEN pkt.dst_mac ELSE pkt.src_mac

(* passive.py:97, pcap.py:142: at any time, and however the capture ends,  *)
(* the inventory holds exactly the hosts that took part in what was read,  *)
(* each with the ports others sent to, the class of those ports, the       *)
(* protocols it used, and the address it used last; and the file has been  *)
(* counted packet by packet.                                               *)
InventoryAgrees ==
    /\ DOMAIN hosts = {ip \in UNION {{seen[i].src, seen[i].dst} : i \in DOMAIN seen} :
                          At(ip) # {}}
    /\ \A ip \in DOMAIN hosts :
          LET ported == {i \in To(ip) : seen[i].layer # "none"}
              known == {i \in At(ip) : MacOf(ip, seen[i]) # ""}
              h == hosts[ip]
          IN  /\ h.ports = {seen[i].dport : i \in ported}
              /\ h.protocols = {seen[i].layer : i \in At(ip)} \ {"none"}
              /\ h.is_ot <=> h.ports \cap OTPorts # {}
              /\ h.is_iot <=> h.ports \cap IoTPorts # {}
              /\ h.mac = IF known = {} THEN "" ELSE MacOf(ip, seen[Max(known)])
    /\ reader = "analyze" => packet_count = Len(seen)

(* The service a secret belongs to, by the ends of the packet.             *)
Server(pkt) == IF pkt.fromServer THEN pkt.src ELSE pkt.dst

(* A Basic header in what a service that has no detector sends back: the   *)
(* ports do not tell the server, and the destination is taken for it.      *)
Echoed(pkt) == pkt.content = "basic" /\ pkt.fromServer /\ pkt.sport \notin CredentialPorts

Attributed(finding, pkt) ==
    IF Echoed(pkt) THEN finding.host = pkt.dst /\ finding.port = pkt.dport
    ELSE finding.host = Server(pkt) /\ finding.port = ServerPort(pkt)

(* pcap.py:131: whichever way a packet travels, a secret in it is reported *)
(* under the server's address and port, never the client's, but for a      *)
(* Basic header that is echoed; every one sent to or by a service that has *)
(* a detector is reported; and no report shows more of it than a name or a *)
(* default community.                                                      *)
SecretsAttributed ==
    LET secret == {i \in DOMAIN seen :
                      /\ Recorded(seen[i]) /\ ServerPort(seen[i]) \in CredentialPorts
                      /\ Found(Detector[ServerPort(seen[i])], seen[i].content) # {}}
    IN  /\ \A n \in DOMAIN credentials : \E i \in DOMAIN seen :
              /\ Recorded(seen[i]) /\ Attributed(credentials[n], seen[i])
              /\ credentials[n].shows = "community" => seen[i].content # "snmp custom"
        /\ reader = "analyze" => \A i \in secret : \E n \in DOMAIN credentials :
              Attributed(credentials[n], seen[i])

=============================================================================
