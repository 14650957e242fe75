---------------------------- MODULE MCWireless ----------------------------
EXTENDS Wireless, TLC

R(mac, ssid, mode, freq, wps) ==
    [mac |-> mac, ssid |-> ssid, mode |-> mode, freq |-> freq, wps |-> wps]

\* The same access point with its name, hidden, and before it was secured; a
\* twin of it from another vendor, one from its own; and one of each other kind.
AllRadios ==
    {R(<<"aa", "1">>, "corp", "wpa2", 2412, FALSE),
     R(<<"aa", "1">>, "", "wpa2", 2412, FALSE),
     R(<<"aa", "1">>, "corp", "open", 2412, TRUE),
     R(<<"bb", "1">>, "corp", "wpa2", 2462, FALSE),
     R(<<"aa", "2">>, "corp", "wpa+wpa2", 5180, TRUE),
     R(<<"bb", "2">>, "guest", "wpa2/wpa3", 5955, FALSE),
     R(<<"aa", "3">>, "x", "wpa3", 2484, FALSE),
     R(<<"cc", "1">>, "x", "owe", 5200, FALSE),
     R(<<"cc", "2">>, "guest", "wep", 2437, FALSE),
     R(<<"cc", "3">>, "", "wpa", 2437, TRUE),
     R(<<"cc", "4">>, "z", "802.1X", 5500, FALSE)}

AllStations == {<<"dd", "1">>}
Everyone == <<"ff", "ff">>
SomeSignals == {0, -40, -80}

SomeBle ==
    {[address |-> <<"ee", "1">>, name |-> "guest", services |-> FALSE, connectable |-> "yes"],
     [address |-> <<"ee", "2">>, name |-> "", services |-> TRUE, connectable |-> "unknown"]}

Base ==
    [command |-> "wifi", monitor |-> FALSE, root |-> FALSE, tools |-> {}, iface |-> TRUE,
     withheld |-> FALSE, format |-> "wigle", ssid_filter |-> "", ble |-> FALSE,
     redact |-> TRUE]

\* A Linux machine with everything, as root and not; a Mac without location
\* permission; the walk; the imports.
SomeCommands ==
    {[Base EXCEPT !.monitor = TRUE, !.root = TRUE, !.tools = {"nmcli", "iw"}],
     [Base EXCEPT !.tools = {"nmcli", "iw"}, !.redact = FALSE],
     [Base EXCEPT !.tools = {"profiler"}, !.withheld = TRUE],
     [Base EXCEPT !.command = "walk", !.root = TRUE, !.tools = {"iw", "profiler"},
                  !.ble = TRUE],
     [Base EXCEPT !.command = "ble"]}
    \cup {[Base EXCEPT !.command = "wardrive", !.format = f] : f \in Format}
    \cup {[Base EXCEPT !.command = "wardrive", !.ssid_filter = "corp"]}
=============================================================================
