------------------------------ MODULE WifiTools ------------------------------
(***************************************************************************)
(* The pure parsers of wireless/wifi.py and wireless/wigle.py: what each   *)
(* source (monitor-mode frames, nmcli, iw, system_profiler, and wardriving *)
(* exports) makes of an access point.                                      *)
(*                                                                         *)
(* A radio is an access point's address, name, centre frequency, WPS       *)
(* setting and security mode; the elements it sends follow from the mode.  *)
(* What a tool prints of them is external; what the parser reads from it   *)
(* is the code's.                                                          *)
(***************************************************************************)
EXTENDS AccessPoints, Sequences

Mode == {"open", "owe", "wep", "wpa", "wpa+wpa2", "wpa2", "802.1X", "wpa2/wpa3", "wpa3"}

(* The centre frequencies in use, in MHz. *)
Frequency == (2412 .. 2472) \cup {2484} \cup (5160 .. 5885) \cup (5955 .. 7115)

(* The key managements of the RSN element, in order, if there is one.      *)
AkmSuites(radio) ==
    CASE radio.mode \in {"wpa+wpa2", "wpa2"}   -> <<"PSK">>
      [] radio.mode \in {"wpa2/wpa3"}          -> <<"PSK", "SAE">>
      [] radio.mode \in {"wpa3"}               -> <<"SAE">>
      [] radio.mode = "owe"                    -> <<"OWE">>
      [] radio.mode = "802.1X"                 -> <<"802.1X">>
      [] radio.mode \in {"open", "wep", "wpa"} -> <<>>

Akms(radio) == Range(AkmSuites(radio))

HasRsn(radio) == AkmSuites(radio) # <<>>

HasWpa(radio) == radio.mode \in {"wpa", "wpa+wpa2"}

RsnCiphers(radio) == IF HasRsn(radio) THEN {"CCMP"} ELSE {}

WpaCiphers(radio) == IF HasWpa(radio) THEN {"TKIP"} ELSE {}

Ciphers(radio) == RsnCiphers(radio) \cup WpaCiphers(radio)

Privacy(radio) == radio.mode \notin {"open", "owe"}

First(names) == IF names = <<>> THEN "" ELSE names[1]

(* The first of the words the code tries, in its order, that is there.     *)
FirstIn(order, words) ==
    LET hits == {i \in DOMAIN order : order[i] \in words}
    IN  IF hits = {} THEN "" ELSE order[Min(hits)]

Security(encryption, cipher, auth, wps) ==
    [encryption |-> encryption, cipher |-> cipher, auth |-> auth, wps |-> wps]

(* _blank_security *)
OpenSecurity == Security("open", {}, "", FALSE)

AccessPoint(bssid, ssid, band, security, signal, place, source) ==
    [bssid |-> bssid, ssid |-> ssid, band |-> band, encryption |-> security.encryption,
     cipher |-> security.cipher, auth |-> security.auth, wps |-> security.wps,
     signal |-> signal, clients |-> {}, place |-> place, source |-> source,
     issues |-> {}]

-----------------------------------------------------------------------------
(* band_for_channel *)
BandForChannel(channel) ==
    CASE channel \in 1 .. 14   -> "2.4GHz"
      [] channel \in 32 .. 196 -> "5GHz"
      [] OTHER                 -> ""

(* Mutant: the 6 GHz band is taken to start at 6000 MHz. *)
BandFromFreqHigh(freq) ==
    CASE freq \in 2400 .. 2499 -> "2.4GHz"
      [] freq \in 4900 .. 5999 -> "5GHz"
      [] freq \in 6000 .. 7125 -> "6GHz"
      [] OTHER                 -> ""

(* _band_from_freq *)
BandFromFreq(freq) ==
    CASE 2400 <= freq /\ freq < 2500  -> "2.4GHz"
      [] 4900 <= freq /\ freq < 5925  -> "5GHz"
      [] 5925 <= freq /\ freq <= 7125 -> "6GHz"
      [] OTHER -> ""

(* _channel_from_freq: 6 GHz numbers start over at 5955 MHz. *)
ChannelFromFreq(freq) ==
    CASE freq = 2484           -> 14
      [] freq \in 2412 .. 2472 -> (freq - 2407) \div 5
      [] freq \in 5000 .. 5924 -> (freq - 5000) \div 5
      [] freq \in 5925 .. 7125 -> IF freq < 5955 THEN 1 ELSE (freq - 5950) \div 5
      [] OTHER                 -> 0

(* The frequency first, the channel number where there is none. *)
Band(freq, channel) ==
    IF BandFromFreq(freq) # "" THEN BandFromFreq(freq) ELSE BandForChannel(channel)

-----------------------------------------------------------------------------
(* An RSN element stands for WPA2, or for WPA3 or Enhanced Open by its key *)
(* management; a WPA element alone for WPA, the privacy bit for WEP.       *)
EncryptionOfElements(radio) ==
    CASE "SAE" \in Akms(radio)                       -> "wpa3"
      [] "SAE" \notin Akms(radio) /\ "OWE" \in Akms(radio) -> "owe"
      [] HasRsn(radio) /\ Akms(radio) \cap {"SAE", "OWE"} = {} -> "wpa2"
      [] ~HasRsn(radio) /\ HasWpa(radio)              -> "wpa"
      [] OTHER -> IF Privacy(radio) THEN "wep" ELSE "open"

(* _parse_scapy_ap and _apply_scapy_crypto: an RSN element hides a WPA     *)
(* element; the signal is read from the radio tap header.  A beacon tells  *)
(* its channel in the 2.4 and 5 GHz bands (DS Parameter Set).              *)
ApFromFrame(radio, signal) ==
    LET channel == IF BandFromFreq(radio.freq) = "6GHz" THEN 0
                   ELSE ChannelFromFreq(radio.freq)
        cipher == IF HasRsn(radio) THEN RsnCiphers(radio) ELSE WpaCiphers(radio)
        auth == IF HasWpa(radio) /\ ~HasRsn(radio) THEN "PSK" ELSE First(AkmSuites(radio))
    IN  AccessPoint(radio.mac, radio.ssid, BandForChannel(channel),
                    Security(EncryptionOfElements(radio), cipher, auth, radio.wps),
                    signal, "none", "scan")

(* Mutant: the RSN section stands for WPA2, whatever its suites. *)
ApFromIwBlockOfOld(radio, signal) ==
    AccessPoint(radio.mac, radio.ssid, Band(radio.freq, 0),
                Security(CASE HasRsn(radio) -> "wpa2"
                           [] OTHER -> EncryptionOfElements(radio),
                         Ciphers(radio), "", radio.wps),
                signal, "none", "scan")

(* _ap_from_iw_block: ciphers and suites of both sections are collected.   *)
ApFromIwBlock(radio, signal) ==
    LET auths == Akms(radio) \cup IF HasWpa(radio) THEN {"PSK"} ELSE {}
        auth == FirstIn(<<"SAE", "802.1X", "PSK", "OWE">>, auths)
    IN  AccessPoint(radio.mac, radio.ssid, Band(radio.freq, ChannelFromFreq(radio.freq)),
                    Security(EncryptionOfElements(radio), Ciphers(radio), auth, radio.wps),
                    signal, "none", "scan")

-----------------------------------------------------------------------------
(* What nmcli prints under SECURITY, and system_profiler as the mode.      *)
SecurityTokens(radio) ==
    {t \in {"WPA1", "WPA2", "WPA3", "OWE", "WEP", "802.1X"} :
        CASE t = "WPA1"   -> HasWpa(radio)
          [] t = "WPA2"   -> Akms(radio) \cap {"PSK", "802.1X"} # {}
          [] t = "WPA3"   -> "SAE" \in Akms(radio)
          [] t = "WEP"    -> Privacy(radio) /\ ~HasRsn(radio) /\ ~HasWpa(radio)
          [] OTHER        -> t \in Akms(radio)}

(* Mutant: Enhanced Open has no branch and is taken for open. *)
EncryptionOfTokensWithoutOwe(tokens) ==
    CASE "WEP" \in tokens  -> "wep"
      [] "WPA3" \in tokens -> "wpa3"
      [] "WPA2" \in tokens -> "wpa2"
      [] "WPA1" \in tokens -> "wpa"
      [] OTHER             -> "open"

(* _security_from_nmcli: the branches exclude each other in this order.    *)
EncryptionOfTokens(tokens) ==
    LET name == [WEP |-> "wep", OWE |-> "owe", WPA3 |-> "wpa3", WPA2 |-> "wpa2",
                 WPA1 |-> "wpa"]
        token == FirstIn(<<"WEP", "OWE", "WPA3", "WPA2", "WPA1">>, tokens)
    IN  IF token = "" THEN "open" ELSE name[token]

(* nmcli gives the signal as a quality from 0 to 100. *)
Quality(signal) == IF signal = 0 THEN 0 ELSE 2 * (signal + 100)

NmcliSignalToDbm(quality) == IF quality <= 0 THEN 0 ELSE quality \div 2 - 100

(* _ap_from_nmcli_row: an open network has no cipher and key management;   *)
(* nmcli says nothing of WPS.                                              *)
ApFromNmcliRow(radio, signal) ==
    LET tokens == SecurityTokens(radio)
        wpa == tokens \cap {"WPA1", "WPA2", "WPA3"} # {}
        auth == FirstIn(<<"SAE", "802.1X", "PSK">>,
                        (Akms(radio) \ {"PSK"}) \cup IF wpa THEN {"PSK"} ELSE {})
        cipher == Ciphers(radio) \cap {"CCMP", "GCMP", "TKIP"}
    IN  AccessPoint(radio.mac, radio.ssid, Band(radio.freq, ChannelFromFreq(radio.freq)),
                    IF tokens = {} THEN OpenSecurity
                    ELSE Security(EncryptionOfTokens(tokens), cipher, auth, FALSE),
                    NmcliSignalToDbm(Quality(signal)), "none", "scan")

(* _ap_from_airport_net; without location permission macOS withholds both  *)
(* names (a placeholder for the network name reads as none).  A network    *)
(* of which nothing is left to tell is dropped.                            *)
ApsFromAirportNet(radio, signal, withheld) ==
    LET tokens == SecurityTokens(radio)
        mode == EncryptionOfTokens(tokens)
        named == radio.ssid # "" /\ ~withheld
        auth == CASE "802.1X" \in tokens -> "802.1X"
                  [] OTHER -> IF mode = "wpa3" THEN "SAE" ELSE "PSK"
        security ==
            CASE mode \in {"open", "owe"} -> OpenSecurity
              [] mode = "wep" -> Security("wep", {}, "", FALSE)
              [] OTHER ->
                    Security(mode, IF mode = "wpa" THEN {"TKIP"} ELSE {"CCMP"}, auth, FALSE)
        bssid == IF withheld THEN NoMac ELSE radio.mac
    IN  IF bssid = NoMac /\ ~named /\ security.encryption = "open" /\ signal = 0 THEN {}
        ELSE {AccessPoint(bssid, IF named THEN radio.ssid ELSE "",
                          Band(radio.freq, ChannelFromFreq(radio.freq)),
                          security, signal, "none", "scan")}

-----------------------------------------------------------------------------
(* How an export words the security element of a network: by the version   *)
(* of WPA it stands for, as the element itself ("[RSN-SAE-CCMP]"), or by   *)
(* both.                                                                   *)
Wording == {"version", "element", "both"}

(* The words of a WiGLE AuthMode, a GPX description or Kismet's encryption *)
(* elements.                                                               *)
AuthMode(radio, wording) ==
    (SecurityTokens(radio) \ IF wording = "element" THEN {"WPA2", "WPA3"} ELSE {})
    \cup (IF wording # "version" /\ HasRsn(radio) THEN {"RSN"} ELSE {})
    \cup Akms(radio) \cup Ciphers(radio)
    \cup (IF radio.wps THEN {"WPS"} ELSE {})
    \cup (IF HasWpa(radio) THEN {"PSK"} ELSE {})
    \cup (IF "802.1X" \in Akms(radio) THEN {"EAP"} ELSE {})

(* What each word stands for: an RSN element for WPA2, whatever its key    *)
(* management, and SAE for WPA3.                                           *)
ToldBy ==
    [wpa3 |-> {"WPA3", "SAE"}, wpa2 |-> {"WPA2", "RSN"}, wpa |-> {"WPA1"},
     wep |-> {"WEP"}, owe |-> {"OWE"}]

ToldOf(words) == {e \in DOMAIN ToldBy : ToldBy[e] \cap words # {}}

(* Mutant: WPA is looked for before what replaced it. *)
ClassifySecurityOldestFirst(words) ==
    Security(FirstIn(<<"wep", "wpa", "wpa2", "wpa3", "owe", "open">>,
                     ToldOf(words) \cup {"open"}),
             words \cap {"CCMP", "GCMP", "TKIP"}, "", "WPS" \in words)

(* _classify_security: signs of both WPA2 and WPA3 make a mixed network.   *)
ClassifySecurity(words) ==
    LET told == ToldOf(words)
        mixed == IF {"wpa2", "wpa3"} \subseteq told THEN {"wpa2/wpa3"} ELSE {}
        encryption == FirstIn(<<"owe", "wpa2/wpa3", "wpa3", "wpa2", "wpa", "wep", "open">>,
                              told \cup mixed \cup {"open"})
        auth == FirstIn(<<"SAE", "OWE", "EAP", "PSK">>, words)
    IN  Security(encryption, words \cap {"CCMP", "GCMP", "TKIP"}, auth, "WPS" \in words)

(* The rows of a wardriving export (_wigle_row_to_ap, _gpx_waypoint_to_ap, *)
(* _kismet_network_to_ap): WiGLE has the signal, GPX has no channel,       *)
(* Kismet has neither signal; all have the place, unless it is no          *)
(* coordinate.  A row that is not of a Wi-Fi network, or names none, is    *)
(* skipped.                                                                *)
ApsFromExport(format, radio, signal, place, wording) ==
    LET channel == IF format = "gpx" THEN 0 ELSE ChannelFromFreq(radio.freq)
        signalOf == IF format = "wigle" THEN signal ELSE 0
    IN  IF radio.mac = NoMac THEN {}
        ELSE {Assessed(AccessPoint(radio.mac, radio.ssid, BandForChannel(channel),
                                   ClassifySecurity(AuthMode(radio, wording)), signalOf,
                                   place, format))}

=============================================================================
