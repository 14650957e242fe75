------------------------------- MODULE Scope -------------------------------
(***************************************************************************)
(* Scope of scanner/scope.py: which targets a scan may touch.  A scope is  *)
(* a record; a range (CIDR block) is a set of addresses, and the patterns  *)
(* of a list of domains are the set of names they match.                   *)
(***************************************************************************)
CONSTANTS
    Name,   \* host names
    Addr,   \* IP addresses, of both versions
    Port    \* port numbers

(*   ranges, ips, domains    what is authorised: cidr_ranges, ip_addresses *)
(*                           and the names that match domains              *)
(*   excludedRanges, ...     what is excluded; excluded domains cover      *)
(*                           their subdomains                              *)
(*   ports                   allowed_ports (Port when it is None)          *)
ScopeType ==
    [ranges : SUBSET SUBSET Addr, ips : SUBSET Addr, domains : SUBSET Name,
     excludedRanges : SUBSET SUBSET Addr, excludedIps : SUBSET Addr,
     excludedDomains : SUBSET Name, ports : SUBSET Port]

IpIsAuthorized(scope, ip) ==
    \/ ip \in scope.ips
    \/ \E range \in scope.ranges : ip \in range

IpIsExcluded(scope, ip) ==
    \/ ip \in scope.excludedIps
    \/ \E range \in scope.excludedRanges : ip \in range

(* Mutant: one authorised answer of the resolver is enough. *)
ResolveAnyAuthorized(scope, host, ips) ==
    /\ host \notin scope.excludedDomains
    /\ ips # {}
    /\ \A ip \in ips : ~IpIsExcluded(scope, ip)
    /\ host \in scope.domains \/ \E ip \in ips : IpIsAuthorized(scope, ip)

(* resolve_in_scope accepts a host that resolves to `ips': a name that is  *)
(* listed may resolve to any address that is not excluded, all addresses   *)
(* of another one must be authorised.                                      *)
ResolveInScope(scope, host, ips) ==
    /\ host \notin scope.excludedDomains
    /\ ips # {}
    /\ \A ip \in ips : ~IpIsExcluded(scope, ip)
    /\ host \in scope.domains \/ \A ip \in ips : IpIsAuthorized(scope, ip)

(* _validate_network: a block of addresses is accepted when it overlaps    *)
(* nothing excluded and lies in one authorised range.                      *)
ValidateNetwork(scope, network) ==
    /\ \A range \in scope.excludedRanges : network \cap range = {}
    /\ network \cap scope.excludedIps = {}
    /\ \E range \in scope.ranges : network \subseteq range

ValidatePort(scope, port) == port \in scope.ports

-----------------------------------------------------------------------------
(* What a check by resolve_in_scope promises of each single connection: it *)
(* goes to an address that is not excluded, and is authorised itself or    *)
(* belongs to a listed name.                                               *)
MayContact(scope, host, ip, port) ==
    /\ host \notin scope.excludedDomains
    /\ ~IpIsExcluded(scope, ip)
    /\ host \in scope.domains \/ IpIsAuthorized(scope, ip)
    /\ port \in scope.ports

=============================================================================
