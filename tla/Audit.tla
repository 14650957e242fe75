------------------------------- MODULE Audit -------------------------------
(***************************************************************************)
(* The commands of cli.py that find and rank vulnerabilities and write     *)
(* reports: scan, vuln, web, full, walk, cve and enrich.  Each is one      *)
(* coroutine that goes through its phases in order; an exception in one of *)
(* them ends the command, and what the phases before it found is lost.     *)
(* Port scan, web audit, identification and wireless scan are modules of   *)
(* their own (ScanNetwork, WebScan, Identify, Wireless); here each of them *)
(* yields a result or raises.  The NVD client and its cache, the ranking   *)
(* by EPSS and KEV, the NSE processes and the report files are modelled    *)
(* step by step.                                                           *)
(*                                                                         *)
(* Commands are run one after another and may be killed at any point.  The *)
(* NVD cache and the report directory outlive them; what NVD publishes     *)
(* changes meanwhile.                                                      *)
(***************************************************************************)
EXTENDS Matcher

CONSTANTS
    Commands,   \* command lines: records of ConfigType
    Machines,   \* what runs on each host: a function to sets of services
    Query,      \* what the NVD may be asked for: CVE ids and keywords
    Keyword,    \* the keywords among them (search_cve)
    Scores,     \* the scores the NVD may give (0: none of CVSS version 3)
    WebPages,   \* results of web scans: [url, severities (a sequence)]
    Stamps,     \* the timestamps report names are made of
    MaxRuns,    \* bounds of the model: commands run in all
    MaxChanges  \* and scores the NVD publishes later on

Host == DOMAIN Machines

Format == {"json", "html", "pdf"}

Command == {"scan", "vuln", "web", "full", "walk", "cve", "enrich"}

(*   cve, web, nse   the phases asked for                                  *)
(*   items           what cve and enrich are asked about                   *)
(*   formats         what --format selects; empty without --output         *)
ConfigType ==
    [command : Command, cve : BOOLEAN, web : BOOLEAN, nse : BOOLEAN,
     items : SUBSET Query, formats : SUBSET Format]

Unknown == -1  \* for a CVE without entry or a keyword without match

NoStamp == "no stamp"

(* Only cve and enrich are given items, and they have no --output.  What   *)
(* nmap and httpx return is finite.                                        *)
ASSUME AuditAssumption ==
    /\ Commands \subseteq ConfigType
    /\ \A c \in Commands : IsFiniteSet(c.items)
    /\ \A c \in Commands :
          IF c.command \in {"cve", "enrich"} THEN c.formats = {} ELSE c.items = {}
    /\ IsFiniteSet(Host) /\ \A h \in Host : IsFiniteSet(Machines[h])
    /\ Keyword \subseteq Query
    /\ IsFiniteSet(Rules) /\ \A r \in Rules : r.cve \in (Query \ Keyword) \cup {NoCve}
    /\ Scores \subseteq 0 .. 100
    /\ IsFiniteSet(WebPages) /\ \A p \in WebPages : p.severities \in Seq(Severity)
    /\ NoStamp \notin Stamps
    /\ MaxRuns \in Nat /\ MaxChanges \in Nat

VARIABLES
    config,    \* the command that runs, or ran last
    phase,     \* its phase; "idle" between commands
    runs,      \* commands started
    hosts,     \* the hosts of the scan result that are up
    findings,  \* vuln_results: records of Matcher!Finding
    todo,      \* findings whose CVE is not looked up yet
    lookup,    \* the finding looked up, the attempts made and the answer got
    ranks,     \* cve_priorities
    pages,     \* web_results
    nseLeft,   \* NSE runs to be made
    child,     \* the nmap process of an NSE run (Subprocess)
    stamp,     \* timestamp of this command's report
    written,   \* paths: the formats written
    nvd,       \* what the NVD publishes now for each query
    ever,      \* and what it published so far (history)
    cache,     \* the NVD cache: a file per query
    disk       \* the report files: whole ones with the run that wrote them

found == <<hosts, findings, ranks, pages>>
nvdVars == <<todo, lookup>>
output == <<stamp, written, disk>>
vars == <<config, phase, runs, found, nvdVars, nseLeft, child, output, nvd, ever,
          cache>>

Process == INSTANCE Subprocess

NoFile == [state |-> "none"]
Torn == [state |-> "torn"]
NoLookup == [finding |-> {}, attempts |-> 0, answer |-> Unknown]

Phases ==
    [scan |-> <<"scan", "report", "close">>,
     vuln |-> <<"scan", "match", "nvd", "rank", "nse", "report", "close">>,
     web |-> <<"web", "report", "close">>,
     full |-> <<"scan", "match", "nvd", "rank", "web", "identify", "report", "close">>,
     walk |-> <<"scan", "match", "rank", "identify", "wireless", "report", "close">>,
     cve |-> <<"nvd", "close">>,
     enrich |-> <<"exposure", "nvd", "rank", "close">>]

(* A stage within a phase: waiting for the NVD, writing a cache or report  *)
(* file.                                                                   *)
Stage == {"asking", "saving", "writing"}

TypeOK ==
    /\ config \in Commands
    /\ phase \in {"idle", "scan", "match", "nvd", "rank", "nse", "web", "identify",
                  "wireless", "exposure", "report", "close"} \cup Stage
    /\ runs \in 0 .. MaxRuns
    /\ hosts \subseteq Host
    /\ todo \subseteq findings
    /\ lookup.finding \subseteq todo /\ Cardinality(lookup.finding) <= 1
    /\ lookup.attempts \in 0 .. 2
    /\ phase \in {"asking", "saving"} <=> lookup.finding # {}
    /\ pages \subseteq WebPages
    /\ Process!TypeOK
    /\ child # "none" => phase = "nse" /\ nseLeft > 0
    /\ stamp \in Stamps \cup {NoStamp}
    /\ written \subseteq config.formats
    /\ nvd \in [Query -> Scores \cup {Unknown}]
    /\ \A q \in Query : cache[q].state \in {"none", "torn", "whole"}
    /\ \A f \in Stamps \X Format : disk[f].state \in {"none", "torn", "whole"}

Idle ==
    /\ hosts = {} /\ findings = {} /\ ranks = {} /\ pages = {}
    /\ todo = {} /\ lookup = NoLookup
    /\ nseLeft = 0 /\ child = "none"
    /\ stamp = NoStamp /\ written = {}

Init ==
    /\ config \in Commands
    /\ phase = "idle"
    /\ runs = 0
    /\ Idle
    /\ nvd \in [Query -> Scores \cup {Unknown}]
    /\ ever = [q \in Query |-> {nvd[q]}]
    /\ cache = [q \in Query |-> NoFile]
    /\ disk = [f \in Stamps \X Format |-> NoFile]

-----------------------------------------------------------------------------
(* Phases that are not asked for, or have nothing to work on.              *)
Skipped(p) ==
    \/ p = "nvd" /\ ~config.cve
    \/ p = "web" /\ ~config.web
    \/ p = "nse" /\ ~config.nse
    \/ p = "rank" /\ config.command = "enrich" /\ config.items = {}
    \/ p = "report" /\ config.formats = {}

(* The phase after p. *)
After(p) ==
    LET order == Phases[config.command]
        i == CHOOSE k \in DOMAIN order : order[k] = p
        j == CHOOSE k \in i + 1 .. Len(order) :
                /\ ~Skipped(order[k])
                /\ \A l \in i + 1 .. k - 1 : Skipped(order[l])
    IN  order[j]

(* The command ends, by returning or with an exception.                    *)
End ==
    /\ phase' = "idle"
    /\ hosts' = {} /\ findings' = {} /\ ranks' = {} /\ pages' = {}
    /\ todo' = {} /\ lookup' = NoLookup
    /\ nseLeft' = 0 /\ child' = "none"
    /\ stamp' = NoStamp /\ written' = {}

(* A finding that stands for an item of cve or enrich. *)
Item(q) == Finding("none", 0, q, q, "info", 0)

(* A command is started with its options. *)
Start ==
    /\ phase = "idle"
    /\ runs < MaxRuns
    /\ runs' = runs + 1
    /\ config' \in Commands
    /\ phase' = Phases[config'.command][1]
    /\ findings' = {Item(q) : q \in config'.items}
    /\ todo' = findings'
    /\ UNCHANGED <<hosts, ranks, pages, lookup, nseLeft, child, output, nvd, ever,
                   cache>>

(* What happens outside: the NVD changes an entry; the process is killed   *)
(* (with its children, as from a terminal).                                *)
Publish ==
    /\ \E q \in Query : \E score \in Scores \ {nvd[q]} :
          /\ Cardinality(UNION {{p} \X ever[p] : p \in Query}) < Cardinality(Query) + MaxChanges
          /\ nvd' = [nvd EXCEPT ![q] = score]
          /\ ever' = [ever EXCEPT ![q] = @ \cup {score}]
    /\ UNCHANGED <<config, phase, runs, found, nvdVars, nseLeft, child, output, cache>>

Crash ==
    /\ phase # "idle"
    /\ End
    /\ UNCHANGED <<config, runs, disk, nvd, ever, cache>>

(* A phase of another module raises: ScopeError, TargetLimitError, nmap or *)
(* httpx errors that nobody catches; a feed that is JSON of another shape; *)
(* XML of nmap that is refused.                                            *)
Raise ==
    /\ phase \in {"scan", "web", "exposure", "rank", "identify", "wireless", "nse"}
    /\ child = "none"
    /\ End
    /\ UNCHANGED <<config, runs, disk, nvd, ever, cache>>

-----------------------------------------------------------------------------
(* scan_network returns; walk sweeps first and scans the live hosts.       *)
Scan ==
    /\ phase = "scan"
    /\ hosts' \in SUBSET Host
    /\ phase' = IF config.command = "walk" /\ hosts' = {} THEN "wireless" ELSE After("scan")
    /\ UNCHANGED <<config, runs, findings, ranks, pages, nvdVars, nseLeft, child,
                   output, nvd, ever, cache>>

Match ==
    /\ phase = "match"
    /\ findings' = UNION {HostFindings(h, Machines[h]) : h \in hosts}
    /\ todo' = {f \in findings' : f.cve # NoCve}
    /\ phase' = After("match")
    /\ UNCHANGED <<config, runs, hosts, ranks, pages, lookup, nseLeft, child,
                   output, nvd, ever, cache>>

-----------------------------------------------------------------------------
(* The answer to the lookup of f: a score replaces the finding's own, also *)
(* 0 for an entry without CVSS version 3; unknown or failed leaves it.     *)
Apply(f, answer) ==
    /\ findings' = (findings \ {f}) \cup
                       {IF answer = Unknown THEN f ELSE [f EXCEPT !.score = answer]}
    /\ todo' = todo \ {f}
    /\ lookup' = NoLookup
    /\ phase' = "nvd"

(* Mutant: a torn cache file counts as an empty answer. *)
CachedTornIsEmpty(q) ==
    {a \in Scores \cup {Unknown} :
        \/ cache[q] = [state |-> "whole", answer |-> a] /\ (q \in Keyword \/ a # Unknown)
        \/ cache[q] = Torn /\ a = Unknown}

(* _load_cache: a file that is not whole reads as none; get_cve takes an   *)
(* empty list for none as well.                                            *)
Cached(q) ==
    {a \in Scores \cup {Unknown} :
        cache[q] = [state |-> "whole", answer |-> a] /\ (q \in Keyword \/ a # Unknown)}

(* get_cve or search_cve for one of the findings. *)
Lookup ==
    /\ phase = "nvd"
    /\ \E f \in todo :
          \/ \E answer \in Cached(f.cve) : Apply(f, answer)
          \/ /\ Cached(f.cve) = {}
             /\ lookup' = [NoLookup EXCEPT !.finding = {f}]
             /\ phase' = "asking"
             /\ UNCHANGED <<findings, todo>>
    /\ UNCHANGED <<config, runs, hosts, ranks, pages, nseLeft, child, output,
                   nvd, ever, cache>>

NvdOver ==
    /\ phase = "nvd"
    /\ todo = {}
    /\ phase' = After("nvd")
    /\ UNCHANGED <<config, runs, found, nvdVars, nseLeft, child, output, nvd, ever,
                   cache>>

(* search_cve saves every answer, get_cve only an entry.                   *)
Saves(q) == q \in Keyword \/ nvd[q] # Unknown

(* The NVD answers.  The cache file is opened, and so emptied, before it is *)
(* written; when it cannot be opened the answer counts all the same.       *)
NvdAnswers ==
    /\ phase = "asking"
    /\ \E f \in lookup.finding :
          \/ /\ Saves(f.cve)
             /\ cache' = [cache EXCEPT ![f.cve] = Torn]
             /\ phase' = "saving"
             /\ lookup' = [lookup EXCEPT !.answer = nvd[f.cve]]
             /\ UNCHANGED <<findings, todo>>
          \/ /\ Apply(f, nvd[f.cve])
             /\ UNCHANGED cache
    /\ UNCHANGED <<config, runs, hosts, ranks, pages, nseLeft, child, output, nvd,
                   ever>>

(* _save_cache ends; on an OSError the file stays torn.                    *)
CacheSaved ==
    /\ phase = "saving"
    /\ \E f \in lookup.finding :
          /\ Apply(f, lookup.answer)
          /\ cache' \in {cache, [cache EXCEPT ![f.cve] =
                                    [state |-> "whole", answer |-> lookup.answer]]}
    /\ UNCHANGED <<config, runs, hosts, ranks, pages, nseLeft, child, output, nvd,
                   ever>>

(* 429 or 503: another attempt after a sleep, three in all (it sleeps      *)
(* after the last one too).  Any other error gives up at once.             *)
NvdRefuses ==
    /\ phase = "asking"
    /\ \/ /\ lookup.attempts < 2
          /\ lookup' = [lookup EXCEPT !.attempts = @ + 1]
          /\ UNCHANGED <<findings, todo, phase>>
       \/ \E f \in lookup.finding : Apply(f, Unknown)
    /\ UNCHANGED <<config, runs, hosts, ranks, pages, nseLeft, child, output, nvd,
                   ever, cache>>

(* A body that is not JSON, or not an object, raises through get_cve.      *)
NvdGarbled ==
    /\ phase = "asking"
    /\ End
    /\ UNCHANGED <<config, runs, disk, nvd, ever, cache>>

-----------------------------------------------------------------------------
Row(c, cvss, percentile, known) ==
    [cve |-> c, cvss |-> cvss, priority |-> Priority(cvss, percentile, c \in known)]

Cves == {f.cve : f \in findings} \ {NoCve}

(* Mutant: of several findings with the same CVE the last one counts. *)
RowsOfLast(percentile, known) ==
    {Row(c, (CHOOSE f \in findings : f.cve = c).score, percentile, known) : c \in Cves}

(* enrich_cves: one row per CVE, with the highest score among its findings. *)
Rows(percentile, known) ==
    {Row(c, Highest({f.score : f \in {g \in findings : g.cve = c}}), percentile, known) :
        c \in Cves}

(* _display_cve_priorities: EPSS gives a percentile, or none (0); the KEV  *)
(* catalog lists some CVEs, none if it could not be loaded (KevCatalog).   *)
Rank ==
    /\ phase = "rank"
    /\ \E percentile \in {0, 95}, known \in SUBSET Cves : ranks' = Rows(percentile, known)
    /\ phase' = After("rank")
    /\ nseLeft' = IF phase' = "nse" THEN 2 ELSE 0
    /\ UNCHANGED <<config, runs, hosts, findings, pages, nvdVars, child, output,
                   nvd, ever, cache>>

(* _scan_web_targets returns; the web command reports only on results.     *)
Web ==
    /\ phase = "web"
    /\ pages' \in SUBSET WebPages
    /\ phase' = IF config.command = "web" /\ pages' = {} THEN "close" ELSE After("web")
    /\ UNCHANGED <<config, runs, hosts, findings, ranks, nvdVars, nseLeft, child,
                   output, nvd, ever, cache>>

(* Identification, the wireless scan of walk, InternetDB lookups of enrich. *)
Aside ==
    /\ phase \in {"identify", "wireless", "exposure"}
    /\ phase' = After(phase)
    /\ UNCHANGED <<config, runs, found, nvdVars, nseLeft, child, output, nvd, ever, cache>>

-----------------------------------------------------------------------------
NseFrame == UNCHANGED <<config, runs, found, nvdVars, output, nvd, ever, cache>>

(* run_nse for the next target and script set: nmap starts, or does not.   *)
NseStart ==
    /\ phase = "nse"
    /\ nseLeft > 0 /\ child = "none"
    /\ \/ Process!Start /\ UNCHANGED nseLeft
       \/ nseLeft' = nseLeft - 1 /\ UNCHANGED child
    /\ UNCHANGED phase
    /\ NseFrame

NseExit == Process!Exit /\ UNCHANGED <<phase, nseLeft>> /\ NseFrame

NseTimeout == Process!Kill /\ UNCHANGED <<phase, nseLeft>> /\ NseFrame

(* Mutant: a killed nmap is left to itself. *)
NseGivenUp ==
    /\ child # "none"
    /\ nseLeft' = nseLeft - 1
    /\ UNCHANGED <<phase, child>>
    /\ NseFrame

(* Its output is collected, or it is reaped after the kill.                *)
NseReaped ==
    /\ Process!Collect \/ Process!Wait
    /\ nseLeft' = nseLeft - 1
    /\ UNCHANGED phase
    /\ NseFrame

NseOver ==
    /\ phase = "nse"
    /\ nseLeft = 0
    /\ phase' = After("nse")
    /\ UNCHANGED <<nseLeft, child>>
    /\ NseFrame

-----------------------------------------------------------------------------
(* The vulnerabilities of web pages, told apart. *)
WebFindings == UNION {{<<p.url, i, p.severities[i]>> : i \in DOMAIN p.severities} : p \in pages}

Counts ==
    [s \in Severity |-> Cardinality({f \in findings : f.severity = s})
                         + Cardinality({w \in WebFindings : w[3] = s})]

(* build_report of what the command passes on: only full and walk hand     *)
(* over the priorities.                                                    *)
BuildReport ==
    [hosts |-> hosts, findings |-> findings, pages |-> pages,
     ranks |-> IF config.command \in {"full", "walk"} THEN ranks ELSE {},
     summary |-> Counts, total |-> Cardinality(findings) + Cardinality(WebFindings),
     level |-> RiskLevel(Counts)]

(* The formats are written in this order.                                  *)
Pending(f) ==
    /\ f \in config.formats \ written
    /\ f = "html" => "json" \notin config.formats \ written
    /\ f = "pdf" => config.formats \ written = {"pdf"}

(* All formats of a report carry the timestamp of its first.               *)
Stamped == stamp' \in (IF stamp = NoStamp THEN Stamps ELSE {stamp})

(* Mutant: an existing report file is opened for writing. *)
OpenTruncating ==
    /\ phase = "report"
    /\ \E f \in Format :
          /\ Pending(f)
          /\ Stamped
          /\ disk' = [disk EXCEPT ![<<stamp', f>>] = Torn]
    /\ phase' = "writing"
    /\ UNCHANGED <<config, runs, found, nvdVars, nseLeft, child, written, nvd, ever, cache>>

(* A new file is created for the next format, never an old one opened.     *)
Open ==
    /\ phase = "report"
    /\ \E f \in Format :
          /\ Pending(f)
          /\ Stamped
          /\ disk[<<stamp', f>>] = NoFile
          /\ disk' = [disk EXCEPT ![<<stamp', f>>] = Torn]
    /\ phase' = "writing"
    /\ UNCHANGED <<config, runs, found, nvdVars, nseLeft, child, written, nvd, ever, cache>>

(* The file is written and closed. *)
Write ==
    /\ phase = "writing"
    /\ \E f \in Format :
          /\ Pending(f)
          /\ disk' = [disk EXCEPT ![<<stamp, f>>] = [state |-> "whole", run |-> runs]]
          /\ written' = written \cup {f}
    /\ phase' = IF written' = config.formats THEN "close" ELSE "report"
    /\ UNCHANGED <<config, runs, found, nvdVars, nseLeft, child, stamp, nvd, ever, cache>>

(* Without a working PDF backend there is no PDF.                          *)
NoPdf ==
    /\ phase = "report"
    /\ Pending("pdf")
    /\ phase' = "close"
    /\ UNCHANGED <<config, runs, found, nvdVars, nseLeft, child, output, nvd, ever, cache>>

(* The directory cannot be made, the name is taken, the disk is full: an   *)
(* exception; a file that was open stays as it is.                         *)
WriteFails ==
    /\ phase \in {"report", "writing"}
    /\ End
    /\ UNCHANGED <<config, runs, disk, nvd, ever, cache>>

(* Clients are closed and the command returns. *)
Return ==
    /\ phase = "close"
    /\ End
    /\ UNCHANGED <<config, runs, disk, nvd, ever, cache>>

Finished ==
    /\ phase = "idle" /\ runs = MaxRuns
    /\ UNCHANGED vars

Nvd == Lookup \/ NvdAnswers \/ CacheSaved \/ NvdRefuses \/ NvdGarbled \/ NvdOver

Nse == NseStart \/ NseExit \/ NseTimeout \/ NseReaped \/ NseOver

Report == Open \/ Write \/ NoPdf \/ WriteFails

Next ==
    \/ Start
    \/ Scan \/ Match \/ Nvd \/ Rank \/ Nse \/ Web \/ Aside
    \/ Report \/ Return
    \/ Raise \/ Crash \/ Publish
    \/ Finished

Spec == Init /\ [][Next]_vars

-----------------------------------------------------------------------------
(* detector.py:406-461, 516-532: a lookup changes nothing of a finding but *)
(* its score, to one the NVD has published for its CVE, however often the  *)
(* cache was torn by a crash or a full disk before; and no CVE is taken    *)
(* for unknown without asking.                                             *)
LookupsHonest ==
    [][\A f \in todo \ todo' :
        phase' = "nvd" =>
            \E score \in (ever[f.cve] \ {Unknown}) \cup {f.score} :
                /\ [f EXCEPT !.score = score] \in findings'
                /\ phase = "nvd" /\ f.cve \notin Keyword => score \in ever[f.cve]]_vars

(* generator.py:107-221 and cli.py:646-733: a report written counts every  *)
(* finding it lists once, lists what the matcher finds on its hosts and    *)
(* nothing else, and ranks CVEs it lists, once each, by the highest score  *)
(* it shows for them and no lower than that score asks for.                *)
ReportAgrees ==
    phase = "writing" =>
        LET r == BuildReport
            shown(c) == {g.score : g \in {h \in r.findings : h.cve = c}}
            same(g, e) == e = [g EXCEPT !.score = e.score]
        IN  /\ r.total = r.summary["critical"] + r.summary["high"] + r.summary["medium"]
                            + r.summary["low"] + r.summary["info"]
            /\ r.level = "INFORMATIONAL" => r.summary["high"] + r.summary["medium"] = 0
            /\ \A g \in r.findings : \E e \in HostFindings(g.host, Machines[g.host]) : same(g, e)
            /\ r.findings # {} =>
                  \A h \in r.hosts : \A e \in HostFindings(h, Machines[h]) :
                      \E g \in r.findings : same(g, e)
            /\ \A row \in r.ranks :
                  /\ row.cvss = Highest(shown(row.cve))
                  /\ row.cvss >= 90 => row.priority \in {"critical", "high"}
                  /\ \A other \in r.ranks : other.cve = row.cve => other = row

(* generator.py:314-325, 339-353: a whole report is never written to       *)
(* again, by this command or a later one; and a command that returns has   *)
(* told exactly the formats it has written whole, which are the ones asked *)
(* for, a PDF excepted.                                                    *)
ReportsKept ==
    [][/\ \A f \in Stamps \X Format : disk[f].state = "whole" => disk'[f] = disk[f]
       /\ phase = "close" =>
              /\ \A f \in written : disk[<<stamp, f>>] = [state |-> "whole", run |-> runs]
              /\ \/ config.formats \ written \subseteq {"pdf"}
                 \/ config.command = "web" /\ pages = {}]_vars

=============================================================================
