---------------------------- MODULE AccessPoints ----------------------------
(***************************************************************************)
(* wireless/base.py: what an inventory keeps of the access points it is    *)
(* told of, how sightings of the same one are merged, and what is reported *)
(* as wrong with them.                                                     *)
(*                                                                         *)
(* A hardware address is a pair of vendor prefix and device number.  The   *)
(* cipher string is the set of its parts, an issue is a tuple.             *)
(***************************************************************************)
EXTENDS Integers, FiniteSets, Functions, FiniteSetsExt

NoMac == <<>>

OUI(mac) == mac[1]

(* Fields that add_ap fills when they are still empty, with the empty      *)
(* value.  ("place" stands for latitude and longitude, "ssid" also for     *)
(* vendor and channel.)                                                    *)
Blank == [ssid |-> "", band |-> "", cipher |-> {}, auth |-> "", place |-> "none"]

Unencrypted == {"", "open"}

(* Mutant: a WPA2 network with WPS enabled is reported for WPA2 only. *)
AssessWithoutWps(ap) ==
    {i \in {<<"open">>, <<"wep">>, <<"wpa1">>, <<"tkip">>, <<"wpa2-only">>} :
        CASE i = <<"open">>  -> ap.encryption \in {"", "open"}
          [] i = <<"wep">>   -> ap.encryption = "wep"
          [] i = <<"wpa1">>  -> ap.encryption = "wpa"
          [] i = <<"tkip">>  -> "TKIP" \in ap.cipher
          [] OTHER -> ap.encryption = "wpa2" /\ ap.auth # "SAE" /\ ~ap.wps}

(* assess_access_point *)
Assess(ap) ==
    {i \in {<<"open">>, <<"wep">>, <<"wpa1">>, <<"tkip">>, <<"wps">>, <<"wpa2-only">>,
            <<"guessable">>} :
        CASE i = <<"open">>      -> ap.encryption \in Unencrypted
          [] i = <<"wep">>       -> ap.encryption = "wep"
          [] i = <<"wpa1">>      -> ap.encryption = "wpa"
          [] i = <<"tkip">>      -> "TKIP" \in ap.cipher
          [] i = <<"wps">>       -> ap.wps
          [] i = <<"wpa2-only">> -> ap.encryption = "wpa2" /\ ap.auth # "SAE"
          [] OTHER               -> ap.auth = "PSK" /\ ap.ssid = "guest"}

Assessed(ap) == [ap EXCEPT !.issues = Assess(ap)]

(* The stronger of two signals in dBm; 0 means none was measured. *)
Stronger(a, b) ==
    IF b # 0 /\ (a = 0 \/ b > a) THEN b ELSE a

Key(ap) == IF ap.bssid # NoMac THEN <<"bssid", ap.bssid>> ELSE <<"ssid", ap.ssid>>

Anonymous(ap) == ap.bssid = NoMac /\ ap.ssid = ""

(* Mutant: what is wrong with the access point is not looked at again. *)
MergeUnassessed(old, ap) ==
    [f \in DOMAIN old |->
        CASE f \in DOMAIN Blank -> IF old[f] = Blank[f] THEN ap[f] ELSE old[f]
          [] f = "signal"       -> Stronger(old.signal, ap.signal)
          [] f = "wps"          -> old.wps \/ ap.wps
          [] f = "encryption"   ->
                IF old.encryption \in Unencrypted THEN ap.encryption ELSE old.encryption
          [] f = "clients"      -> old.clients \cup ap.clients
          [] OTHER              -> old[f]]

(* The merge in add_ap: strongest signal, gaps filled, "open" overridden,  *)
(* and a fresh assessment.                                                 *)
Merge(old, ap) ==
    Assessed([f \in DOMAIN old |->
        CASE f \in DOMAIN Blank -> IF old[f] = Blank[f] THEN ap[f] ELSE old[f]
          [] f = "signal"       -> Stronger(old.signal, ap.signal)
          [] f = "wps"          -> old.wps \/ ap.wps
          [] f = "encryption"   ->
                IF old.encryption \in Unencrypted /\ ap.encryption \notin Unencrypted
                THEN ap.encryption ELSE old.encryption
          [] f = "clients"      -> old.clients \cup ap.clients
          [] OTHER              -> old[f]])

(* Mutant: networks that hide both names are merged as one. *)
AddAnonymousMerged(inventory, ap) ==
    [inventory EXCEPT !.access_points =
        IF Key(ap) \in DOMAIN @
        THEN [@ EXCEPT ![Key(ap)] = Merge(@, ap)]
        ELSE [k \in DOMAIN @ \cup {Key(ap)} |-> IF k = Key(ap) THEN ap ELSE @[k]]]

(* WirelessInventory.add_ap *)
AddAp(inventory, ap) ==
    LET known == inventory.access_points
        key == IF Anonymous(ap) THEN <<"anon", inventory.anon>> ELSE Key(ap)
        entry == IF key \in DOMAIN known THEN Merge(known[key], ap) ELSE ap
    IN  [inventory EXCEPT
            !.anon = IF Anonymous(ap) THEN @ + 1 ELSE @,
            !.access_points =
                [k \in DOMAIN known \cup {key} |-> IF k = key THEN entry ELSE known[k]]]

EmptyInventory ==
    [access_points |-> <<>>, anon |-> 0, ble_devices |-> <<>>]

-----------------------------------------------------------------------------
(* The access points that share a network name, as detect_evil_twins       *)
(* groups them.                                                            *)
Named(aps, ssid) == {ap \in aps : ap.ssid = ssid /\ ap.bssid # NoMac /\ ssid # ""}

(* Mutant: every group of two is reported. *)
TwinNoteOfAll(group) ==
    LET bssids == {ap.bssid : ap \in group}
    IN  IF Cardinality(bssids) < 2 THEN {}
        ELSE {<<"twin", "vendor", {OUI(b) : b \in bssids}>>}

(* The note its group gets, if any: members of one network differ in       *)
(* encryption, or else in vendor.                                          *)
TwinNote(group) ==
    LET bssids == {ap.bssid : ap \in group}
        encryptions == {ap.encryption : ap \in group}
        ouis == {OUI(b) : b \in bssids}
        note == IF Cardinality(encryptions) > 1 THEN <<"twin", "encryption", encryptions>>
                ELSE <<"twin", "vendor", ouis>>
    IN  IF Cardinality(bssids) > 1 /\ (Cardinality(encryptions) > 1 \/ Cardinality(ouis) > 1)
        THEN {note} ELSE {}

(* detect_evil_twins *)
DetectTwins(inventory) ==
    LET aps == inventory.access_points
        Note(ap) == IF ap.ssid = "" \/ ap.bssid = NoMac THEN {}
                    ELSE TwinNote(Named(Range(aps), ap.ssid))
    IN  [inventory EXCEPT !.access_points =
            [k \in DOMAIN aps |-> [aps[k] EXCEPT !.issues = @ \cup Note(aps[k])]]]

-----------------------------------------------------------------------------
(* _mask_mac of report/generator.py: the vendor prefix is kept.            *)
MaskMac(mac) == IF mac = NoMac THEN NoMac ELSE <<OUI(mac), "xx">>

(* Mutant: the stations of an access point are shown in full. *)
RedactWirelessKeepingClients(ap) ==
    [ap EXCEPT !.bssid = MaskMac(@),
               !.place = IF @ = "exact" THEN "coarse" ELSE @]

(* _redact_wireless: and the location is coarsened.                        *)
RedactWireless(ap) ==
    [ap EXCEPT !.bssid = MaskMac(@),
               !.clients = {MaskMac(c) : c \in @},
               !.place = IF @ = "exact" THEN "coarse" ELSE @]

=============================================================================
