------------------------------ MODULE Wireless ------------------------------
(***************************************************************************)
(* The wireless commands of cli.py: wifi, ble, walk --wifi --ble, and      *)
(* wardrive.  scan_wifi sniffs frames in a thread where it can (monitor    *)
(* mode, scapy, root) and otherwise, or if that gave nothing, runs the     *)
(* first of nmcli, iw and system_profiler that answers, each as a child    *)
(* process under a timeout.  A capture may raise half-way, a tool may fail *)
(* to start, hang, exit with any code and print anything, and an access    *)
(* point may be seen any number of times, with changing properties.        *)
(***************************************************************************)
EXTENDS WifiTools

CONSTANTS
    Commands,   \* what may be run: records of ConfigType
    Radios,     \* the access points around: records of WifiTools
    Stations,   \* addresses of other devices
    Broadcast,  \* the address that frames to everyone carry
    Signals,    \* signal strengths in dBm, 0 where none is measured
    BleDevices, \* advertisers: [address, name, services, connectable]
    MaxPairs,   \* bound of the model: pairs of addresses in data frames
    MaxSeen     \* bound of the model: sightings in one capture or tool output

Tool == {"nmcli", "iw", "profiler"}

Format == {"wigle", "gpx", "netxml"}

ConfigType ==
    [command : {"wifi", "ble", "walk", "wardrive"}, monitor : BOOLEAN, root : BOOLEAN,
     tools : SUBSET Tool, iface : BOOLEAN, withheld : BOOLEAN, format : Format,
     ssid_filter : {"", "corp"}, ble : BOOLEAN, redact : BOOLEAN]

ASSUME WirelessAssumption ==
    /\ \A c \in Commands : c \in ConfigType
    /\ \A c \in Commands : c.monitor => c.root
    /\ \A r \in Radios :
          r.mac # NoMac /\ r.mode \in Mode /\ r.freq \in Frequency /\ r.wps \in BOOLEAN
    /\ Signals \subseteq Int
    /\ MaxSeen \in Nat /\ MaxPairs \in Nat

VARIABLES
    config,    \* the command line and the machine it runs on
    pc,        \* capture, a tool of Tool, adding, detect, ble, report or done
    child,     \* the tool's process (Subprocess)
    frames,    \* beacons and probe responses handled (history)
    aps,       \* _BeaconCollector._aps
    pairs,     \* _BeaconCollector._data_pairs
    source,    \* the tool or export whose access points are being added
    inventory, \* the WirelessInventory
    told,      \* the sightings it was built from, in order (history)
    report     \* the wireless part of the report, once it is written

scan == <<config, pc, child, source>>
collector == <<frames, aps, pairs>>
vars == <<scan, collector, inventory, told, report>>

Process == INSTANCE Subprocess

NoReport == [access_points |-> <<>>, ble_devices |-> <<>>]

Macs == {r.mac : r \in Radios}

TypeOK ==
    /\ config \in Commands
    /\ pc \in {"capture", "adding", "detect", "ble", "report", "done"} \cup Tool
    /\ Process!TypeOK
    /\ child # "none" => pc \in config.tools /\ (pc = "iw" => config.root)
    /\ DOMAIN aps = {frames[i].radio.mac : i \in DOMAIN frames}
    /\ pairs \subseteq (Stations \cup {Broadcast} \cup Macs) \X (Stations \cup {Broadcast} \cup Macs)
    /\ source \in {"none"} \cup Tool \cup Format
    /\ inventory.anon \in 0 .. Len(told)
    /\ told \in Seq([source : {"capture"} \cup Tool \cup Format, radio : Radios,
                     wording : Wording, ap : {told[i].ap : i \in DOMAIN told}])
    /\ frames # <<>> => config.monitor

Sees(from, radio, wording, ap) ==
    [source |-> from, radio |-> radio, wording |-> wording, ap |-> ap]

(* Only exports have a choice of words. *)
WordingsOf(from) == IF from \in Format THEN Wording ELSE {"version"}

Init ==
    /\ config \in Commands
    /\ pc = CASE config.command = "wardrive" -> "adding"
              [] config.command = "ble"      -> "ble"
              [] OTHER -> IF config.monitor THEN "capture" ELSE "nmcli"
    /\ source = IF config.command = "wardrive" THEN config.format ELSE "none"
    /\ Process!Init
    /\ frames = <<>>
    /\ aps = <<>>
    /\ pairs = {}
    /\ inventory = EmptyInventory
    /\ told = <<>>
    /\ report = NoReport

-----------------------------------------------------------------------------
(* Mutant: a later beacon replaces what is known of its access point. *)
CollectLatest(ap) ==
    aps' = [b \in DOMAIN aps \cup {ap.bssid} |-> IF b = ap.bssid THEN ap ELSE aps[b]]

(* _add_ap: only the name and the strongest signal are taken from a later  *)
(* beacon.                                                                 *)
Collect(ap) ==
    LET known == aps[ap.bssid]
        entry == IF ap.bssid \in DOMAIN aps
                 THEN [known EXCEPT !.signal = Stronger(known.signal, ap.signal),
                                    !.ssid = IF known.ssid = "" THEN ap.ssid ELSE known.ssid]
                 ELSE ap
    IN  aps' = [b \in DOMAIN aps \cup {ap.bssid} |-> IF b = ap.bssid THEN entry ELSE aps[b]]

(* The sniffing thread hands a beacon to _handle ...                       *)
Beacon ==
    /\ pc = "capture"
    /\ Len(frames) < MaxSeen
    /\ \E r \in Radios, signal \in Signals :
          /\ Collect(ApFromFrame(r, signal))
          /\ frames' = Append(frames, Sees("capture", r, "version", ApFromFrame(r, signal)))
    /\ UNCHANGED <<scan, pairs, inventory, told, report>>

(* ... or a data frame (_track_client) of an access point with a station,  *)
(* another access point or everyone.  Only finalize looks at the pairs, so *)
(* one after the beacons is as good as one before.                         *)
DataFrame ==
    /\ pc = "capture"
    /\ Cardinality(pairs) < MaxPairs
    /\ \E a \in DOMAIN aps, b \in DOMAIN aps \cup Stations \cup {Broadcast} :
          a # b /\ pairs' \in {pairs \cup {<<a, b>>}, pairs \cup {<<b, a>>}}
    /\ UNCHANGED <<scan, frames, aps, inventory, told, report>>

(* Mutant: a frame to everyone counts as one to a client. *)
ClientsOrBroadcast(bssid) ==
    {c \in {p[1] : p \in pairs} \cup {p[2] : p \in pairs} :
        {<<bssid, c>>, <<c, bssid>>} \cap pairs # {}}

(* _client_for_bssid, over all pairs. *)
ClientsOf(bssid) ==
    {c \in {p[1] : p \in pairs} \cup {p[2] : p \in pairs} :
        c # Broadcast /\ {<<bssid, c>>, <<c, bssid>>} \cap pairs # {}}

(* finalize: the inventory is empty before, so that nothing is merged. *)
Finalized ==
    [EmptyInventory EXCEPT !.access_points =
        [k \in {<<"bssid", b>> : b \in DOMAIN aps} |->
            Assessed([aps[k[2]] EXCEPT !.clients = ClientsOf(k[2])])]]

(* The capture window is over; the collector has done its work.            *)
CaptureEnds ==
    /\ pc = "capture"
    /\ inventory' = Finalized
    /\ told' = frames
    /\ pc' = IF aps = <<>> THEN "nmcli" ELSE "detect"
    /\ frames' = <<>>
    /\ aps' = <<>>
    /\ UNCHANGED <<config, child, source, pairs, report>>

(* sniff raises: finalize is not reached, and scan_wifi goes on to the     *)
(* tools with an empty inventory.                                          *)
CaptureFails ==
    /\ pc = "capture"
    /\ pc' = "nmcli"
    /\ frames' = <<>>
    /\ aps' = <<>>
    /\ pairs' = {}
    /\ UNCHANGED <<config, child, source, inventory, told, report>>

-----------------------------------------------------------------------------
NextTool(t) ==
    CASE t = "nmcli" -> "iw"
      [] t = "iw"    -> "profiler"
      [] OTHER       -> "detect"

(* Mutant: iw is run by anyone. *)
UsableByAnyone(t) == t \in config.tools

(* _scan_with_os_tools: is the tool there, and may it be used?             *)
Usable(t) ==
    /\ t \in config.tools
    /\ t = "iw" => config.root /\ config.iface

(* A tool that is not usable, or cannot be started, gives nothing.         *)
SkipTool ==
    /\ pc \in Tool
    /\ child = "none"
    /\ pc' = NextTool(pc)
    /\ UNCHANGED <<config, child, source, collector, inventory, told, report>>

StartTool ==
    /\ pc \in Tool
    /\ Usable(pc)
    /\ Process!Start
    /\ UNCHANGED <<config, pc, source, collector, inventory, told, report>>

ToolExits ==
    /\ Process!Exit
    /\ UNCHANGED <<config, pc, source, collector, inventory, told, report>>

(* communicate returns, whatever the tool's exit code.                     *)
ToolAnswers ==
    /\ pc \in Tool
    /\ Process!Collect
    /\ pc' = "adding"
    /\ source' = pc
    /\ UNCHANGED <<config, collector, inventory, told, report>>

(* Mutant: the tool is left running. *)
ToolTimeoutUnkilled ==
    /\ pc \in Tool
    /\ child # "none"
    /\ pc' = NextTool(pc)
    /\ UNCHANGED <<config, child, source, collector, inventory, told, report>>

(* The timeout: the tool is killed and reaped, its output lost.  A tool    *)
(* that has exited in the meantime needs no kill.                          *)
ToolTimeout ==
    /\ pc \in Tool
    /\ \/ Process!Kill /\ UNCHANGED pc
       \/ Process!Wait /\ pc' = NextTool(pc)
    /\ UNCHANGED <<config, source, collector, inventory, told, report>>

(* What the parser of the source makes of one network; {} if it skips it,  *)
(* and (wardrive --ssid) if the filter drops it.                           *)
Parsed(r, signal, place, wording) ==
    {ap \in CASE source = "nmcli"    -> {ApFromNmcliRow(r, signal)}
             [] source = "iw"       -> {ApFromIwBlock(r, signal)}
             [] source = "profiler" -> ApsFromAirportNet(r, signal, config.withheld)
             [] OTHER               -> ApsFromExport(source, r, signal, place, wording) :
        source \in Format => config.ssid_filter \in {"", ap.ssid}}

(* The next access point is assessed and added.                            *)
Add ==
    /\ pc = "adding"
    /\ Len(told) < MaxSeen
    /\ \E r \in Radios, signal \in Signals, place \in {"none", "exact"},
          wording \in WordingsOf(source) :
          \E ap \in Parsed(r, signal, place, wording) :
             /\ inventory' = AddAp(inventory, Assessed(ap))
             /\ told' = Append(told, Sees(source, r, wording, ap))
    /\ UNCHANGED <<scan, collector, report>>

(* All of them are: output that is empty, or garbage, gives none, and then *)
(* the next tool is tried.                                                 *)
Added ==
    /\ pc = "adding"
    /\ pc' = IF told = <<>> /\ source \in Tool THEN NextTool(source) ELSE "detect"
    /\ source' = "none"
    /\ UNCHANGED <<config, child, collector, inventory, told, report>>

-----------------------------------------------------------------------------
Detect ==
    /\ pc = "detect"
    /\ inventory' = DetectTwins(inventory)
    /\ pc' = IF config.ble THEN "ble" ELSE "report"
    /\ UNCHANGED <<config, child, source, collector, told, report>>

(* assess_ble_device *)
AssessBle(d) ==
    (IF d.connectable = "yes" /\ ~d.services THEN {"no services"} ELSE {})
    \cup (IF d.name = "guest" THEN {"generic name"} ELSE {})

(* scan_ble: without bleak, or if the adapter fails, it finds nothing.     *)
ScanBle ==
    /\ pc = "ble"
    /\ \E found \in SUBSET BleDevices :
          inventory' = [inventory EXCEPT !.ble_devices =
                          [a \in {d.address : d \in found} |->
                              LET d == CHOOSE d \in found : d.address = a
                              IN  [device |-> d, issues |-> AssessBle(d)]]]
    /\ pc' = IF config.command = "ble" THEN "done" ELSE "report"
    /\ UNCHANGED <<config, child, source, collector, told, report>>

(* The report (--output), redacted unless --no-redact; walk has no such    *)
(* option and redacts nothing.                                             *)
Report ==
    /\ pc = "report"
    /\ LET redact == config.redact /\ config.command # "walk"
       IN  report' =
              [access_points |->
                  [k \in DOMAIN inventory.access_points |->
                      IF redact THEN RedactWireless(inventory.access_points[k])
                      ELSE inventory.access_points[k]],
               ble_devices |->
                  [a \in DOMAIN inventory.ble_devices |->
                      IF redact THEN MaskMac(a) ELSE a]]
    /\ pc' = "done"
    /\ UNCHANGED <<config, child, source, collector, inventory, told>>

Done == pc = "done" /\ UNCHANGED vars

Step ==
    \/ CaptureEnds \/ CaptureFails
    \/ SkipTool \/ StartTool \/ ToolAnswers \/ ToolTimeout
    \/ Added \/ Detect \/ ScanBle \/ Report

Next == Step \/ Beacon \/ DataFrame \/ ToolExits \/ Add \/ Done

Spec == Init /\ [][Next]_vars

(* The capture window ends, timeouts expire, and the code goes on.  No     *)
(* tool has to exit.                                                       *)
FairSpec == Spec /\ WF_vars(Step)

-----------------------------------------------------------------------------
Entries == inventory.access_points

Built == pc \in {"detect", "ble", "report", "done"} /\ config.command # "ble"

Sightings(key) ==
    {i \in DOMAIN told : ~Anonymous(told[i].ap) /\ Key(told[i].ap) = key}

(* Of the values a field had in these sightings, the first that is not     *)
(* empty.                                                                  *)
FirstKnown(f, seen, empty) ==
    LET known == {i \in seen : told[i].ap[f] \notin empty}
    IN  IF known = {} THEN told[Min(seen)].ap[f] ELSE told[Min(known)].ap[f]

(* No network is lost or made up; those without names are all counted.     *)
NoneLost ==
    LET anonymous == {i \in DOMAIN told : Anonymous(told[i].ap)}
        keys == DOMAIN Entries \ {<<"anon", n>> : n \in 0 .. Len(told)}
    IN  /\ Cardinality(DOMAIN Entries \ keys) = Cardinality(anonymous)
        /\ keys = {Key(told[i].ap) : i \in DOMAIN told \ anonymous}

(* The values that say nothing. *)
Unknown ==
    [encryption |-> "open", wps |-> FALSE, band |-> "", cipher |-> {}, auth |-> "",
     place |-> "none"]

(* What an entry says is what its sightings said: of a capture the first   *)
(* beacon for all but name and signal, of rows the first that knows.       *)
MergedOf(e, seen) ==
    LET captured == \E i \in seen : told[i].source = "capture"
        strengths == {told[i].ap.signal : i \in seen} \ {0}
    IN  /\ e.ssid = FirstKnown("ssid", seen, {""})
        /\ e.signal = IF strengths = {} THEN 0 ELSE Max(strengths)
        /\ \A f \in DOMAIN Unknown :
              e[f] = FirstKnown(f, seen, IF captured THEN {} ELSE {Unknown[f]})
        /\ e.clients = {s \in (Stations \cup Macs) \ {Broadcast} :
                            captured /\ \E p \in pairs : {p[1], p[2]} = {e.bssid, s}}

(* A note on an evil twin is due exactly if some other access point of     *)
(* that name differs in vendor, or two of that name in encryption.         *)
TwinsOf(e) ==
    {o \in Range(Entries) : o.ssid = e.ssid /\ o.bssid # NoMac /\ o.bssid # e.bssid}

Suspicious(e) ==
    /\ e.ssid # "" /\ e.bssid # NoMac
    /\ TwinsOf(e) # {}
    /\ \E o \in TwinsOf(e), q \in TwinsOf(e) \cup {e} :
          o.encryption # q.encryption \/ OUI(o.bssid) # OUI(q.bssid)

Notes(e) == {i \in e.issues : i[1] = "twin"}

(* What an address tells: which device it is, or only its vendor.          *)
Identifies(mac) == mac # NoMac /\ mac[2] # "xx"

Vendor(mac) == IF mac = NoMac THEN "" ELSE OUI(mac)

(* The report shows the inventory's verdicts: all of each record, except   *)
(* that under redaction no address of a device and no exact place is left  *)
(* of it, and of an address its vendor.                                    *)
ReportFaithful ==
    LET redacted == config.redact /\ config.command # "walk"
        shown == report.access_points
    IN  /\ DOMAIN shown = DOMAIN Entries
        /\ \A k \in DOMAIN Entries :
              LET telling == IF redacted THEN {"bssid", "clients", "place"} ELSE {}
              IN  /\ \A f \in DOMAIN Entries[k] \ telling : shown[k][f] = Entries[k][f]
                  /\ Vendor(shown[k].bssid) = Vendor(Entries[k].bssid)
                  /\ redacted => /\ \A mac \in {shown[k].bssid} \cup shown[k].clients :
                                        ~Identifies(mac)
                                 /\ shown[k].place # "exact"
        /\ redacted => \A mac \in Range(report.ble_devices) : ~Identifies(mac)

(* wireless/base.py, wifi.py: whichever source the inventory was built     *)
(* from and in whatever order an access point was seen, no network is lost *)
(* or made up (those that macOS withholds the names of are all counted).   *)
(* Its signal is the strongest measured and its name the first one known.  *)
(* In an export or a tool's output it is open only if no row says          *)
(* otherwise, and the first row that knows a property gives it; a capture  *)
(* keeps what the first beacon said, also if that was "open" and a later   *)
(* one is encrypted (wifi.py:192).  Its issues are those of the merged     *)
(* record plus, once twins were looked for, a note if another access point *)
(* of its name differs; and the report says the same, redacted where it    *)
(* must be.                                                                *)
InventoryFaithful ==
    Built =>
        /\ pc = "done" => ReportFaithful
        /\ NoneLost
        /\ \A k \in DOMAIN Entries : Sightings(k) # {} => MergedOf(Entries[k], Sightings(k))
        /\ \A e \in Range(Entries) :
              /\ e.issues \ Notes(e) = Assess(e)
              /\ pc # "detect" => Cardinality(Notes(e)) = IF Suspicious(e) THEN 1 ELSE 0

(* The security an operator configured, as the reports name it.            *)
Configured(radio) ==
    CASE radio.mode \in {"wpa+wpa2", "802.1X"} -> {"wpa2"}
      [] radio.mode = "wpa2/wpa3"              -> {"wpa2/wpa3", "wpa3"}
      [] OTHER                                 -> {radio.mode}

TrueBand(radio) ==
    CASE radio.freq < 3000                         -> "2.4GHz"
      [] 3000 <= radio.freq /\ radio.freq < 5950 -> "5GHz"
      [] 5950 <= radio.freq                        -> "6GHz"

(* The name for it that a sighting leads to: that of the settings, except  *)
(* that an export which names the RSN element makes WPA3 alone a mixed     *)
(* network (wigle.py:245 counts "RSN" as WPA2).                            *)
ShownAs(s) ==
    IF s.radio.mode = "wpa3" /\ s.wording # "version" THEN {"wpa2/wpa3"}
    ELSE Configured(s.radio)

(* wifi.py, wigle.py: an access point that was always seen with the same   *)
(* settings gets the verdict of those settings from every source: its      *)
(* encryption, TKIP where it is still offered (frames show only the RSN    *)
(* element's ciphers, macOS none), and its band, where the source tells a  *)
(* frequency.  Two sources do not agree: macOS has no word for Enhanced    *)
(* Open, and an export that names the RSN element of a WPA3 network gets   *)
(* it reported as mixed; there the first row decides.                      *)
VerdictAgrees ==
    Built => \A k \in DOMAIN Entries :
        LET seen == Sightings(k)
            settings == {told[i].radio : i \in seen}
        IN  \A r \in settings :
              LET e == Entries[k]
                  by == told[Min(seen)].source
              IN  settings = {r} /\ ~(by = "profiler" /\ r.mode = "owe") =>
                    /\ e.encryption \in ShownAs(told[Min(seen)])
                    /\ by \in {"nmcli", "iw"} \cup Format =>
                          (<<"tkip">> \in e.issues <=> r.mode \in {"wpa", "wpa+wpa2"})
                    /\ by \in Tool => e.band = TrueBand(r)

(* However tools hang and fail, the command ends, and no tool is running   *)
(* then, nor anywhere but in its own turn.                                 *)
ScanEnds == <>[](pc = "done" /\ child = "none")

=============================================================================
