------------------------------ MODULE Matcher ------------------------------
(***************************************************************************)
(* The vulnerability matcher of vuln/detector.py: signature rules and four *)
(* fixed checks, applied to the open ports of a host.  Scores are counted  *)
(* in tenths (CVSS 9.8 is 98).  A product pattern is the set of products   *)
(* it finds; a version is the sequence of its numbers, empty when it does  *)
(* not begin with a number.                                                *)
(***************************************************************************)
EXTENDS Integers, Sequences, FiniteSets

CONSTANTS
    Rules  \* the rules: records of RuleType

Severity == {"critical", "high", "medium", "low", "info"}

NoCve == "no CVE"

(* A condition that is absent stands as the empty set or sequence.         *)
RuleType(r) ==
    /\ r.severity \in Severity
    /\ r.score \in 0 .. 100
    /\ DOMAIN r = {"id", "cve", "severity", "score", "names", "ports", "products", "below"}

ASSUME MatcherAssumption == \A r \in Rules : RuleType(r)

-----------------------------------------------------------------------------
(* _version_less_than: the shorter version is padded with zeros; a version *)
(* that is no number is never below another.                               *)
VersionLess(current, target) ==
    LET part(version, i) == IF i \in DOMAIN version THEN version[i] ELSE 0
    IN  /\ current # <<>> /\ target # <<>>
        /\ \E i \in DOMAIN current \cup DOMAIN target :
              /\ part(current, i) < part(target, i)
              /\ \A j \in 1 .. i - 1 : part(current, j) = part(target, j)

(* _rule_matches.  (Names are compared without case; product and version   *)
(* patterns are one condition here.)                                       *)
RuleMatches(rule, service) ==
    /\ rule.names # {} => service.name \in rule.names
    /\ rule.ports # {} => service.port \in rule.ports
    /\ rule.products # {} => service.product \in rule.products
    /\ rule.below # <<>> => VersionLess(service.version, rule.below)

Finding(host, port, id, cve, severity, score) ==
    [host |-> host, port |-> port, id |-> id, cve |-> cve, severity |-> severity,
     score |-> score]

(* The ports of _check_insecure_protocols, _check_exposed_services and     *)
(* _check_default_ports.                                                   *)
InsecurePorts == {21, 23, 110, 143, 161, 389, 512, 513, 514}
SensitivePorts == {3306, 5432, 6379, 27017, 9200, 3389, 5900, 11211}
DefaultCredentialPorts == {22, 23, 21, 3306, 5432, 6379, 27017, 8080, 9200}

(* One check of a host: what it finds on each of its open ports in scope.  *)
Check(host, services, ports, id, severity) ==
    {Finding(host, s.port, id, NoCve, severity, 0) : s \in {t \in services : t.port \in ports}}

(* scan_host: the rules on each port whose service is known, then the      *)
(* checks on every open port.                                              *)
HostFindings(host, services) ==
    (UNION {{Finding(host, s.port, r.id, r.cve, r.severity, r.score) :
                 r \in {rule \in Rules : s.name # "" /\ RuleMatches(rule, s)}} : s \in services})
    \cup Check(host, services, InsecurePorts, "INSECURE-PROTO", "high")
    \cup Check(host, services, SensitivePorts, "EXPOSED", "medium")
    \cup Check(host, services, DefaultCredentialPorts, "DEFAULT-CRED-CHECK", "low")
    \cup Check(host, {s \in services : s.name = "http"}, {80}, "HTTP-NO-TLS", "medium")

-----------------------------------------------------------------------------
Highest(scores) == CHOOSE s \in scores : \A t \in scores : t <= s

(* prioritize of intel/enrich.py; the percentile in hundredths. *)
Priority(score, percentile, known) ==
    CASE known -> "critical"
      [] ~known /\ (percentile >= 90 \/ score >= 90) -> "high"
      [] ~known /\ percentile < 90 /\ score < 90 /\ score >= 70 -> "medium"
      [] OTHER -> "low"

(* _calculate_risk_level of report/generator.py. *)
RiskLevel(count) ==
    CASE count["critical"] > 0 -> "CRITICAL"
      [] count["critical"] = 0 /\ count["high"] > 3 -> "HIGH"
      [] count["critical"] = 0 /\ count["high"] <= 3
            /\ (count["high"] > 0 \/ count["medium"] > 5) -> "MEDIUM"
      [] count["critical"] = 0 /\ count["high"] = 0 /\ count["medium"] <= 5
            /\ (count["medium"] > 0 \/ count["low"] > 3) -> "LOW"
      [] OTHER -> "INFORMATIONAL"

=============================================================================
