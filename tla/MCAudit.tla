------------------------------ MODULE MCAudit ------------------------------
EXTENDS Audit, TLC

Rule(id, cve, severity, score, names, products, below) ==
    [id |-> id, cve |-> cve, severity |-> severity, score |-> score, names |-> names,
     ports |-> {}, products |-> products, below |-> below]

SomeRules ==
    {Rule("LOG4", "CVE-1", "critical", 100, {"http"}, {"log4j"}, <<>>),
     Rule("MYSQL", NoCve, "high", 75, {"mysql"}, {}, <<8, 0, 33>>)}

S(port, name, product, version) ==
    [port |-> port, name |-> name, product |-> product, version |-> version]

\* Two web servers with the same flaw, one beside an old database and a
\* service nmap could not name.
SomeMachines ==
    "a" :> {S(80, "http", "log4j", <<2>>), S(3306, "mysql", "", <<8>>), S(23, "", "", <<>>)}
    @@ "b" :> {S(8443, "http", "log4j", <<>>), S(3306, "mysql", "", <<8, 0, 33, 1>>)}

SomePages == {[url |-> "a", severities |-> <<"high", "low", "low">>]}

Base ==
    [command |-> "full", cve |-> TRUE, web |-> TRUE, nse |-> FALSE, items |-> {},
     formats |-> {"json", "pdf"}]

SomeCommands ==
    {Base, [Base EXCEPT !.web = FALSE, !.formats = {}],
     [Base EXCEPT !.command = "vuln", !.nse = TRUE, !.web = FALSE, !.formats = {"json"}],
     [Base EXCEPT !.command = "walk", !.cve = FALSE, !.web = FALSE, !.formats = {"html"}],
     [Base EXCEPT !.command = "web", !.cve = FALSE, !.formats = {"json", "pdf"}],
     [Base EXCEPT !.command = "scan", !.cve = FALSE, !.web = FALSE, !.formats = {"pdf"}],
     [Base EXCEPT !.command = "cve", !.web = FALSE, !.formats = {}, !.items = {"log4j"}],
     [Base EXCEPT !.command = "enrich", !.web = FALSE, !.formats = {}, !.items = {"CVE-1"}]}

\* Versions are compared as numbers in a positional system.
Versions == UNION {[1 .. n -> {0, 1, 9, 10}] : n \in 0 .. 3}
Weight(v) ==
    LET part(i) == IF i \in DOMAIN v THEN v[i] ELSE 0 IN 400 * part(1) + 20 * part(2) + part(3)

ASSUME VersionsCompare ==
    \A v, w \in Versions \ {<<>>} : VersionLess(v, w) <=> Weight(v) < Weight(w)
=============================================================================
