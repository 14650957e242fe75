--------------------------- MODULE MCScanNetwork ---------------------------
(* Three units; one ordinary and one industrial port.                      *)
EXTENDS ScanNetwork
CONSTANTS u1, u2, u3, itPort, otPort

ThreeUnits == {u1, u2, u3}
MCPort == {itPort, otPort}
MCOTPort == {otPort}

Scan(requested, allowed, timing, intensity, os, workers) ==
    [requested |-> requested, allowed |-> allowed, valid |-> TRUE,
     timing |-> timing, intensity |-> intensity, os |-> os, workers |-> workers]

(* The IT profile on ordinary ports, with one or two workers. *)
ITScan(workers) == Scan({itPort}, MCPort, 4, 7, TRUE, workers)

(* Industrial ports asked for: all allowed, filtered out, the only allowed *)
(* ones; the OT profile; a scope that leaves nothing; a bad scan type.     *)
MixedConfigs ==
    {ITScan(1), ITScan(2), Scan(MCPort, MCPort, 4, 7, TRUE, 2),
     Scan(MCPort, {itPort}, 4, 7, TRUE, 2), Scan(MCPort, {otPort}, 3, 2, FALSE, 2),
     Scan({itPort}, MCPort, 2, 0, TRUE, 2), Scan({itPort}, {otPort}, 4, 7, FALSE, 2),
     [ITScan(2) EXCEPT !.valid = FALSE]}
=============================================================================
