----------------------------- MODULE MCWebScan -----------------------------
(* A device given by name, tried over https and http, one given by the URL *)
(* of its address, and one by an excluded address.  Address 2 is           *)
(* authorised, 3 is excluded, 1 is neither.                                *)
EXTENDS WebScan
CONSTANTS device, listed, byName, byUrl, outside, admin, config, debug

MCName == {device, listed}
MCAddr == 1 .. 3
MCPort == {80, 443}
MCTarget == {byName, byUrl, outside}
MCPath == {admin, config, debug}

U(scheme, host) ==
    [scheme |-> scheme, host |-> host, port |-> IF scheme = "http" THEN 80 ELSE 443]

MCUrls ==
    [t \in MCTarget |->
        CASE t = byName -> <<U("https", device), U("http", device)>>
          [] t = byUrl -> <<U("http", 2)>>
          [] t = outside -> <<U("https", 3), U("http", 3)>>]

(* The resolver fails, answers, adds an address, or moves the name.        *)
MCAnswers ==
    [n \in MCName |-> IF n = device THEN {{}, {2}, {1, 2}} ELSE {{1}, {2, 3}}]

(* To https, to a listed name, and to an address out of scope.             *)
MCLocations == {U("https", device), U("http", listed), U("http", 1)}

Plain ==
    [ranges |-> {{2, 3}}, ips |-> {}, domains |-> {listed}, excludedRanges |-> {{3}},
     excludedIps |-> {}, excludedDomains |-> {}, ports |-> MCPort]
OnlyHttp == [Plain EXCEPT !.ports = {80}]
OnlyHttps ==
    [Plain EXCEPT !.ports = {443}, !.ranges = {}, !.ips = {2},
                  !.excludedDomains = {listed}, !.excludedRanges = {}, !.excludedIps = {3}]

MCConfigs ==
    {[scope |-> Plain, deep |-> FALSE], [scope |-> OnlyHttp, deep |-> FALSE],
     [scope |-> OnlyHttps, deep |-> TRUE]}
=============================================================================
