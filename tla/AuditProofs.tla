---------------------------- MODULE AuditProofs ----------------------------
(***************************************************************************)
(* Proofs about Audit, for any machines, rules, command lines, NVD answers *)
(* and timestamps.                                                         *)
(*                                                                         *)
(* What a report says depends on the phases before it, so the invariant    *)
(* follows them.  PlanInv: where in its order a command is.  FindingsInv:  *)
(* the findings are those of the hosts scanned, but for scores a lookup    *)
(* may have changed.  NvdInv: an answer, also one in a cache file, is one  *)
(* the NVD has given for its query.  RankInv: there are no ranks before    *)
(* the lookups are over, so none is of a score that changes afterwards.    *)
(* ReportInv: the files a command claims are its own and whole.            *)
(*                                                                         *)
(* The last part is about KevCatalog, the other data a ranking rests on.   *)
(***************************************************************************)
EXTENDS Audit, FiniteSetTheorems, WellFoundedInduction, TLAPS

Order == Phases[config.command]

Names == {"scan", "match", "nvd", "rank", "nse", "web", "identify", "wireless",
          "exposure", "report", "close"}

(* The phases in which findings may still change. *)
Early == {"scan", "match", "nvd", "exposure", "rank"}

-----------------------------------------------------------------------------
LEMMA Commanded ==
    ASSUME config \in Commands
    PROVE  /\ config.command \in Command /\ config.formats \subseteq Format
           /\ config.items \subseteq Query /\ IsFiniteSet(config.items)
           /\ config.command \in {"cve", "enrich"} => config.formats = {}
           /\ config.command \notin {"cve", "enrich"} => config.items = {}
BY AuditAssumption DEF ConfigType

(* The orders of phases, one by one.                                       *)
LEMMA OrderFacts ==
    ASSUME NEW c \in Command
    PROVE  /\ Phases[c] \in Seq(Names)
           /\ Len(Phases[c]) \in 2 .. 8
           /\ \A i \in 1 .. Len(Phases[c]) :
                 /\ Phases[c][i] \in Names
                 /\ Phases[c][i] = "close" <=> i = Len(Phases[c])
                 /\ Phases[c][i] = "report" => i = Len(Phases[c]) - 1
                 /\ Phases[c][i] = "report" => c \notin {"cve", "enrich"}
                 /\ Phases[c][i] = "scan" <=> i = 1 /\ c \in {"scan", "vuln", "full", "walk"}
                 /\ Phases[c][i] = "match" => i = 2 /\ Phases[c][1] = "scan"
                 /\ \A j \in 1 .. i :
                       /\ Phases[c][i] \in Early => Phases[c][j] \in Early
                       /\ Phases[c][i] \in Early \ {"rank"} => Phases[c][j] # "rank"
                       /\ Phases[c][i] = Phases[c][j] => i = j
           /\ c \notin {"cve", "enrich"} => Phases[c][Len(Phases[c]) - 1] = "report"
<1>1. CASE c = "scan"
  <2>1. Phases[c] = <<"scan", "report", "close">>
    BY <1>1 DEF Phases
  <2> QED
    BY <1>1, <2>1 DEF Names, Early
<1>2. CASE c = "vuln"
  <2>1. Phases[c] = <<"scan", "match", "nvd", "rank", "nse", "report", "close">>
    BY <1>2 DEF Phases
  <2> QED
    BY <1>2, <2>1 DEF Names, Early
<1>3. CASE c = "web"
  <2>1. Phases[c] = <<"web", "report", "close">>
    BY <1>3 DEF Phases
  <2> QED
    BY <1>3, <2>1 DEF Names, Early
<1>4. CASE c = "full"
  <2>1. Phases[c] = <<"scan", "match", "nvd", "rank", "web", "identify", "report", "close">>
    BY <1>4 DEF Phases
  <2> QED
    BY <1>4, <2>1 DEF Names, Early
<1>5. CASE c = "walk"
  <2>1. Phases[c] = <<"scan", "match", "rank", "identify", "wireless", "report", "close">>
    BY <1>5 DEF Phases
  <2> QED
    BY <1>5, <2>1 DEF Names, Early
<1>6. CASE c = "cve"
  <2>1. Phases[c] = <<"nvd", "close">>
    BY <1>6 DEF Phases
  <2> QED
    BY <1>6, <2>1 DEF Names, Early
<1>7. CASE c = "enrich"
  <2>1. Phases[c] = <<"exposure", "nvd", "rank", "close">>
    BY <1>7 DEF Phases
  <2> QED
    BY <1>7, <2>1 DEF Names, Early
<1> QED
  BY <1>1, <1>2, <1>3, <1>4, <1>5, <1>6, <1>7 DEF Command

(* Of three phases in a row one is not skipped, nor is the last.           *)
LEMMA SomeFollows ==
    ASSUME config \in Commands, NEW i \in 1 .. Len(Order) - 1
    PROVE  \/ ~Skipped(Order[i + 1])
           \/ i + 2 <= Len(Order) /\ ~Skipped(Order[i + 2])
           \/ i + 3 <= Len(Order) /\ ~Skipped(Order[i + 3])
<1>1. config.command \in Command
  BY Commanded
<1>2. CASE config.command = "scan"
  <2>1. Order = <<"scan", "report", "close">>
    BY <1>2 DEF Order, Phases
  <2> QED
    BY <2>1 DEF Skipped
<1>3. CASE config.command = "vuln"
  <2>1. Order = <<"scan", "match", "nvd", "rank", "nse", "report", "close">>
    BY <1>3 DEF Order, Phases
  <2> QED
    BY <1>3, <2>1 DEF Skipped
<1>4. CASE config.command = "web"
  <2>1. Order = <<"web", "report", "close">>
    BY <1>4 DEF Order, Phases
  <2> QED
    BY <2>1 DEF Skipped
<1>5. CASE config.command = "full"
  <2>1. Order = <<"scan", "match", "nvd", "rank", "web", "identify", "report", "close">>
    BY <1>5 DEF Order, Phases
  <2> QED
    BY <1>5, <2>1 DEF Skipped
<1>6. CASE config.command = "walk"
  <2>1. Order = <<"scan", "match", "rank", "identify", "wireless", "report", "close">>
    BY <1>6 DEF Order, Phases
  <2> QED
    BY <1>6, <2>1 DEF Skipped
<1>7. CASE config.command = "cve"
  <2>1. Order = <<"nvd", "close">>
    BY <1>7 DEF Order, Phases
  <2> QED
    BY <2>1 DEF Skipped
<1>8. CASE config.command = "enrich"
  <2>1. Order = <<"exposure", "nvd", "rank", "close">>
    BY <1>8 DEF Order, Phases
  <2> QED
    BY <2>1 DEF Skipped
<1> QED
  BY <1>1, <1>2, <1>3, <1>4, <1>5, <1>6, <1>7, <1>8 DEF Command

(* The commands end by closing their clients. *)
LEMMA LastPlace ==
    ASSUME config \in Commands
    PROVE  Len(Order) \in DOMAIN Order /\ Order[Len(Order)] = "close"
<1>1. config.command \in Command
  BY Commanded
<1>2. Order \in Seq(Names) /\ Len(Order) \in 2 .. 8
  BY <1>1, OrderFacts DEF Order
<1>3. DOMAIN Order = 1 .. Len(Order)
  BY <1>2
<1>4. Len(Order) \in 1 .. Len(Order)
  BY <1>2
<1> QED
  BY <1>1, <1>3, <1>4, OrderFacts DEF Order

(* A phase is followed by the next of the order that is not skipped.       *)
LEMMA AfterNext ==
    ASSUME config \in Commands, NEW i \in 1 .. Len(Order) - 1
    PROVE  \E j \in i + 1 .. Len(Order) :
              /\ After(Order[i]) = Order[j] /\ ~Skipped(Order[j])
              /\ \A l \in i + 1 .. j - 1 : Skipped(Order[l])
<1> DEFINE p == Order[i]
           Follows(k) == /\ ~Skipped(Order[k])
                         /\ \A l \in i + 1 .. k - 1 : Skipped(Order[l])
           here == CHOOSE k \in DOMAIN Order : Order[k] = p
           next(h) == CHOOSE k \in h + 1 .. Len(Order) :
                        /\ ~Skipped(Order[k])
                        /\ \A l \in h + 1 .. k - 1 : Skipped(Order[l])
<1>1. /\ Len(Order) \in 2 .. 8 /\ DOMAIN Order = 1 .. Len(Order)
      /\ \A k, l \in 1 .. Len(Order) : Order[k] = Order[l] => k = l
  <2>1. config.command \in Command
    BY Commanded
  <2>2. Order \in Seq(Names) /\ Len(Order) \in 2 .. 8
    BY <2>1, OrderFacts DEF Order
  <2>3. \A k \in 1 .. Len(Order) : \A l \in 1 .. k : Order[k] = Order[l] => k = l
    BY <2>1, OrderFacts DEF Order
  <2>4. \A k, l \in 1 .. Len(Order) : k \in 1 .. l \/ l \in 1 .. k
    BY <2>2
  <2> QED
    BY <2>2, <2>3, <2>4
<1>2. here = i
  BY <1>1
<1>3. \E k \in i + 1 .. Len(Order) : Follows(k)
  <2>1. CASE ~Skipped(Order[i + 1])
    BY <1>1, <2>1
  <2>2. CASE Skipped(Order[i + 1]) /\ i + 2 <= Len(Order) /\ ~Skipped(Order[i + 2])
    <3>1. \A l \in i + 1 .. (i + 2) - 1 : l = i + 1
      BY <1>1
    <3> QED
      BY <1>1, <2>2, <3>1
  <2>3. CASE /\ Skipped(Order[i + 1]) /\ i + 3 <= Len(Order)
             /\ Skipped(Order[i + 2]) /\ ~Skipped(Order[i + 3])
    <3>1. \A l \in i + 1 .. (i + 3) - 1 : l = i + 1 \/ l = i + 2
      BY <1>1
    <3> QED
      BY <1>1, <2>3, <3>1
  <2> QED
    BY <1>1, <2>1, <2>2, <2>3, SomeFollows
<1>4. After(p) = Order[next(here)]
  BY DEF After, Order
<1>5. next(i) \in i + 1 .. Len(Order) /\ Follows(next(i))
  BY <1>3
<1> QED
  BY <1>2, <1>4, <1>5

(* What comes after a phase of the order.                                  *)
LEMMA AfterFacts ==
    ASSUME config \in Commands, NEW p, NEW i \in DOMAIN Order, p = Order[i], p # "close"
    PROVE  /\ \E j \in DOMAIN Order : After(p) = Order[j]
           /\ After(p) \in Names \ {"scan"}
           /\ After(p) = "match" => p = "scan"
           /\ After(p) \in Early => p \in Early
           /\ p = "rank" => After(p) \notin Early
           /\ After(p) = "close" /\ p # "report" => config.formats = {}
<1>1. config.command \in Command /\ (config.command \in {"cve", "enrich"} => config.formats = {})
  BY Commanded
<1>2. /\ Order \in Seq(Names) /\ Len(Order) \in 2 .. 8 /\ DOMAIN Order = 1 .. Len(Order)
      /\ p = "close" <=> i = Len(Order)
  BY <1>1, OrderFacts DEF Order
<1>3. i \in 1 .. Len(Order) - 1
  BY <1>2
<1>4. PICK j \in i + 1 .. Len(Order) : /\ After(Order[i]) = Order[j]
                                       /\ \A l \in i + 1 .. j - 1 : Skipped(Order[l])
  BY <1>3, AfterNext
<1>5. j \in 1 .. Len(Order) /\ i \in 1 .. j /\ j \in DOMAIN Order /\ j # 1
  BY <1>2, <1>3, <1>4
<1>6. /\ Order[j] \in Names
      /\ Order[j] = "close" <=> j = Len(Order)
      /\ Order[j] = "scan" => j = 1
      /\ Order[j] = "match" => j = 2 /\ Order[1] = "scan"
      /\ Order[j] \in Early => Order[i] \in Early
      /\ Order[j] \in Early \ {"rank"} => Order[i] # "rank"
      /\ Order[i] = Order[j] => i = j
      /\ config.command \notin {"cve", "enrich"} => Order[Len(Order) - 1] = "report"
  BY <1>1, <1>5, OrderFacts DEF Order
<1>7. i < j
  BY <1>2, <1>3, <1>4
<1>8. ASSUME Order[j] = "close", p # "report"
      PROVE  config.formats = {}
  <2>1. CASE config.command \in {"cve", "enrich"}
    BY <1>1, <2>1
  <2>2. CASE config.command \notin {"cve", "enrich"}
    <3>1. Order[Len(Order) - 1] = "report" /\ j = Len(Order)
      BY <1>6, <1>8, <2>2
    <3>2. Len(Order) - 1 \in i + 1 .. j - 1
      BY <1>2, <1>3, <1>8, <3>1
    <3>3. Skipped("report")
      BY <1>4, <3>1, <3>2
    <3> QED
      BY <3>3 DEF Skipped
  <2> QED
    BY <2>1, <2>2
<1>9. Order[j] = "match" => Order[i] = "scan"
  BY <1>3, <1>6, <1>7
<1> QED
  BY <1>4, <1>5, <1>6, <1>7, <1>8, <1>9

-----------------------------------------------------------------------------
(* What a finding is, and that a lookup keeps it one.                      *)
IsFinding(f) ==
    /\ f = Finding(f.host, f.port, f.id, f.cve, f.severity, f.score)
    /\ f.cve \in Query \cup {NoCve}
    /\ f.severity \in Severity
    /\ f.score \in 0 .. 100

(* The same finding, but for its score. *)
Same(g, e) == e = [g EXCEPT !.score = e.score]

LEMMA Rescored ==
    ASSUME NEW f, IsFinding(f), NEW score \in 0 .. 100
    PROVE  /\ IsFinding([f EXCEPT !.score = score])
           /\ [f EXCEPT !.score = score].host = f.host
           /\ [f EXCEPT !.score = score].cve = f.cve
           /\ \A e : Same(f, e) <=> Same([f EXCEPT !.score = score], e)
<1> DEFINE g == [f EXCEPT !.score = score]
<1>1. f = [host |-> f.host, port |-> f.port, id |-> f.id, cve |-> f.cve,
           severity |-> f.severity, score |-> f.score]
  BY DEF IsFinding, Finding
<1>2. g = [host |-> f.host, port |-> f.port, id |-> f.id, cve |-> f.cve,
           severity |-> f.severity, score |-> score]
  BY <1>1
<1>3. IsFinding(g) /\ g.host = f.host /\ g.cve = f.cve
  BY <1>2 DEF IsFinding, Finding
<1>4. ASSUME NEW e PROVE Same(f, e) <=> Same(g, e)
  <2>1. [f EXCEPT !.score = e.score] = [g EXCEPT !.score = e.score]
    BY <1>1, <1>2
  <2> QED
    BY <2>1 DEF Same
<1> QED
  BY <1>3, <1>4

LEMMA SameItself ==
    ASSUME NEW f, IsFinding(f)
    PROVE  [f EXCEPT !.score = f.score] = f /\ Same(f, f)
BY DEF IsFinding, Finding, Same

LEMMA FiniteImage ==
    ASSUME NEW S, IsFiniteSet(S), NEW f, NEW T, T = {f[x] : x \in S}
    PROVE  IsFiniteSet(T)
<1> DEFINE g == [x \in S |-> f[x]]
<1>1. g \in Surjection(S, T)
  BY DEF Surjection
<1> QED
  BY <1>1, FS_Surjection

LEMMA FindingFields ==
    ASSUME NEW host, NEW port, NEW id, NEW cve \in Query \cup {NoCve},
           NEW severity \in Severity, NEW score \in 0 .. 100
    PROVE  /\ IsFinding(Finding(host, port, id, cve, severity, score))
           /\ Finding(host, port, id, cve, severity, score).host = host
           /\ Finding(host, port, id, cve, severity, score).cve = cve
BY DEF IsFinding, Finding

LEMMA CheckFacts ==
    ASSUME NEW host, NEW services, IsFiniteSet(services), NEW ports, NEW id,
           NEW severity \in Severity
    PROVE  /\ IsFiniteSet(Check(host, services, ports, id, severity))
           /\ \A f \in Check(host, services, ports, id, severity) : IsFinding(f) /\ f.host = host
<1> DEFINE S == {t \in services : t.port \in ports}
           f == [s \in S |-> Finding(host, s.port, id, NoCve, severity, 0)]
<1>1. IsFiniteSet(S)
  BY FS_Subset
<1>2. Check(host, services, ports, id, severity) = {f[s] : s \in S}
  BY DEF Check
<1>3. \A s \in S : f[s] = Finding(host, s.port, id, NoCve, severity, 0)
  OBVIOUS
<1> HIDE DEF f, S
<1>4. IsFiniteSet({f[s] : s \in S})
  BY <1>1, FiniteImage
<1>5. \A s \in S : IsFinding(f[s]) /\ f[s].host = host
  BY <1>3, FindingFields
<1> QED
  BY <1>2, <1>4, <1>5

LEMMA HostFindingsFacts ==
    ASSUME NEW h \in Host
    PROVE  /\ IsFiniteSet(HostFindings(h, Machines[h]))
           /\ \A f \in HostFindings(h, Machines[h]) : IsFinding(f) /\ f.host = h
<1> DEFINE services == Machines[h]
           Matching(s) == {rule \in Rules : s.name # "" /\ RuleMatches(rule, s)}
           OfService(s) ==
               {Finding(h, s.port, r.id, r.cve, r.severity, r.score) : r \in Matching(s)}
           byService == [s \in services |-> OfService(s)]
           Ruled == {byService[s] : s \in services}
<1>1. IsFiniteSet(services) /\ IsFiniteSet(Rules)
      /\ \A r \in Rules : /\ r.cve \in Query \cup {NoCve} /\ r.severity \in Severity
                          /\ r.score \in 0 .. 100
  BY AuditAssumption, MatcherAssumption DEF RuleType
<1>2. ASSUME NEW s \in services
      PROVE  IsFiniteSet(OfService(s)) /\ \A f \in OfService(s) : IsFinding(f) /\ f.host = h
  <2> DEFINE R == Matching(s)
             g == [r \in R |-> Finding(h, s.port, r.id, r.cve, r.severity, r.score)]
  <2>1. R \subseteq Rules /\ IsFiniteSet(R)
    BY <1>1, FS_Subset
  <2>2. OfService(s) = {g[r] : r \in R}
    OBVIOUS
  <2>3. \A r \in R : g[r] = Finding(h, s.port, r.id, r.cve, r.severity, r.score)
    OBVIOUS
  <2> HIDE DEF g, R
  <2>4. IsFiniteSet({g[r] : r \in R})
    BY <2>1, FiniteImage
  <2>5. ASSUME NEW r \in R PROVE IsFinding(g[r]) /\ g[r].host = h
    <3>1. r.cve \in Query \cup {NoCve} /\ r.severity \in Severity /\ r.score \in 0 .. 100
      BY <1>1, <2>1
    <3> QED
      BY <2>3, <3>1, FindingFields
  <2> QED
    BY <2>2, <2>4, <2>5
<1>3. \A s \in services : byService[s] = OfService(s)
  OBVIOUS
<1>4. Ruled = {OfService(s) : s \in services}
  OBVIOUS
<1> HIDE DEF byService
<1>5. IsFiniteSet(Ruled)
  BY <1>1, FiniteImage
<1>6. IsFiniteSet(UNION Ruled) /\ \A f \in UNION Ruled : IsFinding(f) /\ f.host = h
  <2>1. \A T \in Ruled : IsFiniteSet(T) /\ \A f \in T : IsFinding(f) /\ f.host = h
    BY <1>2, <1>3
  <2> HIDE DEF Ruled
  <2>2. IsFiniteSet(UNION Ruled)
    BY <1>5, <2>1, FS_UNION
  <2> QED
    BY <2>1, <2>2
<1> DEFINE C1 == Check(h, services, InsecurePorts, "INSECURE-PROTO", "high")
           C2 == Check(h, services, SensitivePorts, "EXPOSED", "medium")
           C3 == Check(h, services, DefaultCredentialPorts, "DEFAULT-CRED-CHECK", "low")
           C4 == Check(h, {s \in services : s.name = "http"}, {80}, "HTTP-NO-TLS", "medium")
<1>7. HostFindings(h, services) = ((((UNION Ruled) \cup C1) \cup C2) \cup C3) \cup C4
  <2> HIDE DEF Ruled
  <2> QED
    BY <1>4 DEF HostFindings
<1>8. IsFiniteSet({s \in services : s.name = "http"})
  BY <1>1, FS_Subset
<1>9. {"high", "medium", "low"} \subseteq Severity
  BY DEF Severity
<1>10. ASSUME NEW ports, NEW id, NEW severity \in Severity
       PROVE  /\ IsFiniteSet(Check(h, services, ports, id, severity))
              /\ \A f \in Check(h, services, ports, id, severity) : IsFinding(f) /\ f.host = h
  BY <1>1, CheckFacts
<1>11. IsFiniteSet(C1) /\ \A f \in C1 : IsFinding(f) /\ f.host = h
  BY <1>9, <1>10
<1>12. IsFiniteSet(C2) /\ \A f \in C2 : IsFinding(f) /\ f.host = h
  BY <1>9, <1>10
<1>13. IsFiniteSet(C3) /\ \A f \in C3 : IsFinding(f) /\ f.host = h
  BY <1>9, <1>10
<1>14. IsFiniteSet(C4) /\ \A f \in C4 : IsFinding(f) /\ f.host = h
  BY <1>8, <1>9, CheckFacts
<1> HIDE DEF C1, C2, C3, C4, Ruled
<1>15. IsFiniteSet(((((UNION Ruled) \cup C1) \cup C2) \cup C3) \cup C4)
  <2>1. IsFiniteSet((UNION Ruled) \cup C1)
    BY <1>6, <1>11, FS_Union
  <2>2. IsFiniteSet(((UNION Ruled) \cup C1) \cup C2)
    BY <1>12, <2>1, FS_Union
  <2>3. IsFiniteSet((((UNION Ruled) \cup C1) \cup C2) \cup C3)
    BY <1>13, <2>2, FS_Union
  <2> QED
    BY <1>14, <2>3, FS_Union
<1> QED
  BY <1>6, <1>7, <1>11, <1>12, <1>13, <1>14, <1>15

(* The findings of some hosts. *)
LEMMA MatchedFacts ==
    ASSUME NEW H \in SUBSET Host, NEW F, F = UNION {HostFindings(h, Machines[h]) : h \in H}
    PROVE  /\ IsFiniteSet(F) /\ \A f \in F : IsFinding(f)
           /\ \A f \in F : f.host \in Host /\ f \in HostFindings(f.host, Machines[f.host])
           /\ \A h \in H : HostFindings(h, Machines[h]) \subseteq F
<1> DEFINE g == [h \in H |-> HostFindings(h, Machines[h])]
           G == {g[h] : h \in H}
<1>1. IsFiniteSet(H)
  BY AuditAssumption, FS_Subset
<1>2. F = UNION G /\ \A h \in H : g[h] = HostFindings(h, Machines[h])
  OBVIOUS
<1> HIDE DEF g
<1>3. IsFiniteSet(G)
  BY <1>1, FiniteImage
<1>4. \A h \in H : IsFiniteSet(g[h]) /\ \A f \in g[h] : IsFinding(f) /\ f.host = h
  BY <1>2, HostFindingsFacts
<1>5. IsFiniteSet(UNION G)
  <2>1. \A T \in G : IsFiniteSet(T)
    BY <1>4
  <2> HIDE DEF G
  <2> QED
    BY <1>3, <2>1, FS_UNION
<1> QED
  BY <1>2, <1>4, <1>5

-----------------------------------------------------------------------------
(* The phase a stage is part of. *)
Place ==
    CASE phase \in {"asking", "saving"} -> "nvd"
      [] phase = "writing" -> "report"
      [] OTHER -> phase

Answers == Scores \cup {Unknown}

Whole(states) == {NoFile, Torn} \cup states

PlanInv ==
    /\ config \in Commands
    /\ phase \in {"idle"} \cup Names \cup Stage
    /\ phase # "idle" => \E i \in DOMAIN Order : Order[i] = Place
    /\ phase = "idle" => Idle
    /\ runs \in 0 .. MaxRuns
    /\ pages \in SUBSET WebPages
    /\ nseLeft \in 0 .. 2
    /\ Process!TypeOK
    /\ child # "none" => phase = "nse" /\ nseLeft > 0

(* What was matched, and what a lookup may still change of it.             *)
FindingsInv ==
    /\ hosts \in SUBSET Host
    /\ IsFiniteSet(findings)
    /\ \A f \in findings : IsFinding(f)
    /\ \A f \in todo : f \in findings /\ f.cve \in Query
    /\ phase \in {"scan", "match"} => findings = {}
    /\ config.command \notin {"cve", "enrich"} =>
          /\ \A g \in findings : \E e \in HostFindings(g.host, Machines[g.host]) : Same(g, e)
          /\ findings # {} =>
                \A h \in hosts : \A e \in HostFindings(h, Machines[h]) :
                    \E g \in findings : Same(g, e)

(* An answer is one the NVD has given for its query.                       *)
NvdInv ==
    /\ lookup \in [finding : SUBSET todo, attempts : 0 .. 2, answer : Answers]
    /\ lookup.finding = {} \/ \E f \in todo : lookup.finding = {f}
    /\ phase \in {"asking", "saving"} <=> lookup.finding # {}
    /\ nvd \in [Query -> Answers]
    /\ ever \in [Query -> SUBSET Answers]
    /\ \A q \in Query : nvd[q] \in ever[q]
    /\ cache \in [Query -> Whole([state : {"whole"}, answer : Answers])]
    /\ \A q \in Query : cache[q].state = "whole" => cache[q].answer \in ever[q]
    /\ phase = "saving" => \A f \in lookup.finding : lookup.answer \in ever[f.cve]

(* The ranks are of the findings as they stay.                             *)
RankInv ==
    /\ phase \in Early \cup {"asking", "saving"} => ranks = {}
    /\ ranks # {} => \E percentile \in {0, 95}, known \in SUBSET Cves :
                        ranks = Rows(percentile, known)

(* The files of this command are its own.                                  *)
ReportInv ==
    /\ stamp \in Stamps \cup {NoStamp}
    /\ written \subseteq config.formats
    /\ disk \in [Stamps \X Format -> Whole([state : {"whole"}, run : Nat])]
    /\ \A f \in written : stamp \in Stamps /\ disk[<<stamp, f>>] = [state |-> "whole", run |-> runs]
    /\ phase = "writing" =>
          stamp \in Stamps /\ \E f \in Format : Pending(f) /\ disk[<<stamp, f>>] = Torn
    /\ phase = "close" =>
          \/ config.formats \ written \subseteq {"pdf"}
          \/ config.command = "web" /\ pages = {}

IInv == PlanInv /\ FindingsInv /\ NvdInv /\ RankInv /\ ReportInv

-----------------------------------------------------------------------------
(* Steps that leave a part of the state alone.                             *)
LEMMA SameFindings ==
    ASSUME FindingsInv, UNCHANGED <<config, hosts, findings, todo>>,
           phase' \in {"scan", "match"} => phase \in {"scan", "match"}
    PROVE  FindingsInv'
BY DEF FindingsInv

LEMMA SameNvd ==
    ASSUME NvdInv, UNCHANGED <<lookup, nvd, ever, cache>>,
           lookup.finding = {} \/ todo' = todo,
           phase' \in {"asking", "saving"} <=> phase \in {"asking", "saving"},
           phase' = "saving" => phase = "saving"
    PROVE  NvdInv'
<1>1. /\ lookup \in [finding : SUBSET todo', attempts : 0 .. 2, answer : Answers]
      /\ lookup.finding = {} \/ \E f \in todo' : lookup.finding = {f}
  <2>1. lookup \in [finding : SUBSET todo, attempts : 0 .. 2, answer : Answers]
    BY DEF NvdInv
  <2>2. lookup.finding \in SUBSET todo'
    BY <2>1
  <2> QED
    BY <2>1, <2>2 DEF NvdInv
<1>2. Answers' = Answers /\ Whole([state : {"whole"}, answer : Answers])'
                              = Whole([state : {"whole"}, answer : Answers])
  BY DEF Answers, Whole
<1> QED
  BY <1>1, <1>2 DEF NvdInv

LEMMA SameRanks ==
    ASSUME RankInv, UNCHANGED <<findings, ranks>>,
           phase' \in Early \cup {"asking", "saving"} => phase \in Early \cup {"asking", "saving"}
    PROVE  RankInv'
<1>1. Early' = Early /\ Cves' = Cves
      /\ \A percentile, known : Rows(percentile, known)' = Rows(percentile, known)
  BY DEF Early, Cves, Rows
<1> QED
  BY <1>1 DEF RankInv

LEMMA SameReport ==
    ASSUME ReportInv, UNCHANGED <<config, runs, stamp, written, disk>>,
           phase' = "writing" => phase = "writing",
           phase' = "close" => \/ config.formats \ written \subseteq {"pdf"}
                               \/ config.command = "web" /\ pages' = {}
    PROVE  ReportInv'
<1>1. \A f \in Format : Pending(f)' = Pending(f)
  BY DEF Pending
<1>2. Format' = Format /\ Whole([state : {"whole"}, run : Nat])'
                             = Whole([state : {"whole"}, run : Nat])
  BY DEF Format, Whole
<1> QED
  BY <1>1, <1>2 DEF ReportInv

(* On to the next phase. *)
LEMMA Onward ==
    ASSUME PlanInv, config' = config, NEW p \in Names, p # "close",
           \E i \in DOMAIN Order : Order[i] = p, phase' = After(p)
    PROVE  /\ phase' \in Names \ {"scan"} /\ phase' \notin {"idle"} \cup Stage
           /\ \E i \in DOMAIN Order' : Order'[i] = Place'
           /\ phase' = "match" => p = "scan"
           /\ phase' \in Early => p \in Early
           /\ p = "rank" => phase' \notin Early
           /\ phase' = "close" /\ p # "report" => config.formats = {}
<1>1. config \in Commands
  BY DEF PlanInv
<1>2. /\ \E j \in DOMAIN Order : After(p) = Order[j]
      /\ After(p) \in Names \ {"scan"}
      /\ After(p) = "match" => p = "scan"
      /\ After(p) \in Early => p \in Early
      /\ p = "rank" => After(p) \notin Early
      /\ After(p) = "close" /\ p # "report" => config.formats = {}
  BY <1>1, AfterFacts
<1>3. Order' = Order
  BY DEF Order
<1>4. After(p) \notin {"idle"} \cup Stage /\ Place' = phase'
  <2>1. After(p) \notin {"idle"} \cup Stage
    BY <1>2 DEF Names, Stage
  <2> QED
    BY <2>1 DEF Place, Stage
<1> QED
  BY <1>2, <1>3, <1>4

LEMMA Here ==
    ASSUME PlanInv, phase \in Names
    PROVE  \E i \in DOMAIN Order : Order[i] = phase
BY DEF PlanInv, Place, Names

-----------------------------------------------------------------------------
LEMMA EndStep ==
    ASSUME IInv, End, UNCHANGED <<config, runs, disk, nvd, ever, cache>>
    PROVE  IInv'
<1>1. PlanInv'
  BY DEF IInv, PlanInv, End, Idle, NoLookup, Process!TypeOK
<1>2. FindingsInv'
  BY FS_EmptySet DEF End, FindingsInv
<1>3. NvdInv'
  <2>1. lookup' = [finding |-> {}, attempts |-> 0, answer |-> Unknown] /\ todo' = {}
        /\ phase' = "idle"
    BY DEF End, NoLookup
  <2>2. lookup' \in [finding : SUBSET todo', attempts : 0 .. 2, answer : Answers]
    BY <2>1 DEF Answers
  <2>3. Answers' = Answers /\ Whole([state : {"whole"}, answer : Answers])'
                              = Whole([state : {"whole"}, answer : Answers])
    BY DEF Answers, Whole
  <2> QED
    BY <2>1, <2>2, <2>3 DEF IInv, NvdInv
<1>4. RankInv'
  BY DEF End, RankInv, Early
<1>5. ReportInv'
  BY DEF IInv, End, ReportInv, Whole, Format
<1> QED
  BY <1>1, <1>2, <1>3, <1>4, <1>5 DEF IInv

(* The first phase of a command. *)
LEMMA FirstPhase ==
    ASSUME NEW c \in Command
    PROVE  /\ Phases[c] \in Seq(Names) /\ Len(Phases[c]) \in 2 .. 8
           /\ Phases[c][1] \in Names \ {"match", "close", "report"}
           /\ Phases[c][1] = "scan" => c \in {"scan", "vuln", "full", "walk"}
<1>1. Phases[c] \in Seq(Names) /\ Len(Phases[c]) \in 2 .. 8
  BY OrderFacts
<1>2. 1 \in 1 .. Len(Phases[c]) /\ 1 # Len(Phases[c])
  <2> DEFINE n == Len(Phases[c])
  <2>1. n \in 2 .. 8
    BY <1>1
  <2> HIDE DEF n
  <2>2. 1 \in 1 .. n /\ 1 # n
    BY <2>1
  <2> QED
    BY <2>2 DEF n
<1>3. /\ Phases[c][1] \in Names
      /\ Phases[c][1] = "close" <=> 1 = Len(Phases[c])
      /\ Phases[c][1] = "scan" <=> 1 = 1 /\ c \in {"scan", "vuln", "full", "walk"}
      /\ Phases[c][1] = "match" => 1 = 2 /\ Phases[c][1] = "scan"
  BY <1>2, OrderFacts
<1>4. Phases[c][1] # "report"
  BY DEF Command, Phases
<1> QED
  BY <1>1, <1>2, <1>3, <1>4

LEMMA StartStep ==
    ASSUME IInv, Start
    PROVE  IInv'
<1>1. /\ phase = "idle" /\ runs < MaxRuns /\ runs' = runs + 1 /\ config' \in Commands
      /\ phase' = Phases[config'.command][1]
      /\ findings' = {Item(q) : q \in config'.items} /\ todo' = findings'
      /\ UNCHANGED <<hosts, ranks, pages, lookup, nseLeft, child, stamp, written, disk,
                     nvd, ever, cache>>
  BY DEF Start, output
<1>2. /\ hosts = {} /\ ranks = {} /\ pages = {} /\ lookup = NoLookup /\ child = "none"
      /\ nseLeft = 0 /\ stamp = NoStamp /\ written = {}
  BY <1>1 DEF IInv, PlanInv, Idle
<1>3. /\ config'.command \in Command /\ config'.formats \subseteq Format
      /\ config'.items \subseteq Query /\ IsFiniteSet(config'.items)
      /\ config'.command \notin {"cve", "enrich"} => config'.items = {}
  BY <1>1, AuditAssumption DEF ConfigType
<1>4. /\ phase' \in Names /\ 1 \in DOMAIN Order' /\ Order'[1] = phase'
      /\ phase' # "match" /\ phase' # "close" /\ phase' # "report"
      /\ phase' = "scan" => config'.command \notin {"cve", "enrich"}
  <2>1. /\ Phases[config'.command] \in Seq(Names) /\ Len(Phases[config'.command]) \in 2 .. 8
        /\ Phases[config'.command][1] \in Names \ {"match", "close", "report"}
        /\ Phases[config'.command][1] = "scan" =>
              config'.command \in {"scan", "vuln", "full", "walk"}
    BY <1>3, FirstPhase
  <2>2. Order' = Phases[config'.command]
    BY DEF Order
  <2>3. 1 \in DOMAIN Order'
    <3>1. Order' \in Seq(Names) /\ Len(Order') \in 2 .. 8
      BY <2>1, <2>2
    <3> QED
      BY <3>1
  <2> QED
    BY <1>1, <2>1, <2>2, <2>3
<1>5. phase' \notin {"idle"} \cup Stage /\ Place' = phase'
  BY <1>4 DEF Names, Stage, Place
<1>6. PlanInv'
  <2>1. runs' \in 0 .. MaxRuns
    BY <1>1, AuditAssumption DEF IInv, PlanInv
  <2> QED
    BY <1>1, <1>2, <1>4, <1>5, <2>1 DEF IInv, PlanInv, Process!TypeOK
<1>7. FindingsInv'
  <2>1. \A f \in findings' : IsFinding(f) /\ f.cve \in Query
    <3>1. ASSUME NEW q \in Query
          PROVE  IsFinding(Item(q)) /\ Item(q).cve = q
      BY FindingFields DEF Item, Severity
    <3> QED
      BY <1>1, <1>3, <3>1
  <2>2. IsFiniteSet(findings')
    <3> DEFINE g == [q \in config'.items |-> Item(q)]
    <3>1. findings' = {g[q] : q \in config'.items}
      BY <1>1
    <3> HIDE DEF g
    <3> QED
      BY <1>3, <3>1, FiniteImage
  <2>3. config'.command \notin {"cve", "enrich"} => findings' = {}
    BY <1>1, <1>3
  <2> QED
    BY <1>1, <1>2, <1>4, <2>1, <2>2, <2>3 DEF FindingsInv
<1>8. NvdInv'
  <2>1. lookup.finding = {}
    BY <1>2 DEF NoLookup
  <2> QED
    BY <1>1, <1>5, <2>1, SameNvd DEF IInv, Stage
<1>9. RankInv'
  BY <1>1, <1>2 DEF RankInv
<1>10. ReportInv'
  <2>1. phase' # "writing"
    BY <1>5 DEF Stage
  <2> QED
    BY <1>1, <1>2, <1>4, <2>1 DEF IInv, ReportInv, Whole, Format
<1> QED
  BY <1>6, <1>7, <1>8, <1>9, <1>10 DEF IInv

LEMMA PublishStep ==
    ASSUME IInv, Publish
    PROVE  IInv'
<1>1. PICK q \in Query : \E score \in Scores \ {nvd[q]} :
                            /\ nvd' = [nvd EXCEPT ![q] = score]
                            /\ ever' = [ever EXCEPT ![q] = @ \cup {score}]
  BY DEF Publish
<1>2. PICK score \in Scores : /\ nvd' = [nvd EXCEPT ![q] = score]
                              /\ ever' = [ever EXCEPT ![q] = @ \cup {score}]
  BY <1>1
<1>3. /\ UNCHANGED <<config, phase, runs, hosts, findings, ranks, pages, todo, lookup,
                     nseLeft, child, stamp, written, disk, cache>>
  BY DEF Publish, found, nvdVars, output
<1>4. PlanInv'
  BY <1>3 DEF IInv, PlanInv, Idle, Place, Order, Process!TypeOK
<1>5. FindingsInv' /\ RankInv'
  BY <1>3, SameFindings, SameRanks DEF IInv
<1>6. ReportInv'
  BY <1>3, SameReport DEF IInv, ReportInv
<1>7. NvdInv'
  <2>1. /\ nvd \in [Query -> Answers] /\ ever \in [Query -> SUBSET Answers]
        /\ \A r \in Query : nvd[r] \in ever[r]
        /\ lookup \in [finding : SUBSET todo, attempts : 0 .. 2, answer : Answers]
        /\ \A f \in todo : f.cve \in Query
    BY DEF IInv, NvdInv, FindingsInv
  <2>2. /\ nvd' \in [Query -> Answers] /\ ever' \in [Query -> SUBSET Answers]
        /\ \A r \in Query : nvd'[r] \in ever'[r] /\ ever[r] \subseteq ever'[r]
    BY <1>2, <2>1 DEF Answers
  <2>3. \A f \in lookup.finding : f.cve \in Query
    BY <2>1
  <2>4. Answers' = Answers /\ Whole([state : {"whole"}, answer : Answers])'
                              = Whole([state : {"whole"}, answer : Answers])
    BY DEF Answers, Whole
  <2> QED
    BY <1>3, <2>2, <2>3, <2>4 DEF IInv, NvdInv
<1> QED
  BY <1>4, <1>5, <1>6, <1>7 DEF IInv

LEMMA ScanStep ==
    ASSUME IInv, Scan
    PROVE  IInv'
<1>1. /\ phase = "scan" /\ hosts' \in SUBSET Host
      /\ phase' = IF config.command = "walk" /\ hosts' = {} THEN "wireless" ELSE After("scan")
      /\ UNCHANGED <<config, runs, findings, ranks, pages, todo, lookup, nseLeft, child,
                     stamp, written, disk, nvd, ever, cache>>
  BY DEF Scan, nvdVars, output
<1>2. phase \in Names /\ phase # "close" /\ \E i \in DOMAIN Order : Order[i] = phase
  BY <1>1, Here DEF IInv, Names
<1>3. /\ phase' \in Names \ {"scan"} /\ phase' \notin {"idle"} \cup Stage
      /\ \E i \in DOMAIN Order' : Order'[i] = Place'
      /\ phase' \in Early => phase \in Early
      /\ phase' = "close" => config.formats = {}
  <2>1. CASE phase' = After("scan")
    BY <1>1, <1>2, <2>1, Onward DEF IInv
  <2>2. CASE config.command = "walk" /\ phase' = "wireless"
    <3>1. Order' = <<"scan", "match", "rank", "identify", "wireless", "report", "close">>
      BY <1>1, <2>2 DEF Order, Phases
    <3>2. 5 \in DOMAIN Order' /\ Order'[5] = "wireless"
      BY <3>1
    <3>3. phase' \in Names \ {"scan"} /\ phase' \notin {"idle"} \cup Stage \cup Early
          /\ Place' = phase'
      BY <2>2 DEF Names, Stage, Early, Place
    <3> QED
      BY <2>2, <3>2, <3>3
  <2> QED
    BY <1>1, <2>1, <2>2
<1>4. PlanInv'
  BY <1>1, <1>3 DEF IInv, PlanInv, Process!TypeOK
<1>5. FindingsInv'
  BY <1>1 DEF IInv, FindingsInv
<1>6. NvdInv' /\ RankInv'
  BY <1>1, <1>3, SameNvd, SameRanks DEF IInv, Stage, Early
<1>7. ReportInv'
  BY <1>1, <1>3, SameReport DEF IInv, Stage
<1> QED
  BY <1>4, <1>5, <1>6, <1>7 DEF IInv

LEMMA MatchStep ==
    ASSUME IInv, Match
    PROVE  IInv'
<1>1. /\ phase = "match" /\ findings' = UNION {HostFindings(h, Machines[h]) : h \in hosts}
      /\ todo' = {f \in findings' : f.cve # NoCve} /\ phase' = After("match")
      /\ UNCHANGED <<config, runs, hosts, ranks, pages, lookup, nseLeft, child,
                     stamp, written, disk, nvd, ever, cache>>
  BY DEF Match, output
<1>2. phase \in Names /\ phase # "close" /\ \E i \in DOMAIN Order : Order[i] = phase
  BY <1>1, Here DEF IInv, Names
<1>3. /\ phase' \in Names \ {"scan"} /\ phase' \notin {"idle"} \cup Stage
      /\ \E i \in DOMAIN Order' : Order'[i] = Place'
      /\ phase' # "match"
      /\ phase' = "close" => config.formats = {}
  BY <1>1, <1>2, Onward DEF IInv
<1>4. PlanInv'
  BY <1>1, <1>3 DEF IInv, PlanInv, Process!TypeOK
<1>5. FindingsInv'
  <2>1. hosts \in SUBSET Host
    BY DEF IInv, FindingsInv
  <2>2. /\ IsFiniteSet(findings') /\ \A f \in findings' : IsFinding(f)
        /\ \A f \in findings' : f.host \in Host /\ f \in HostFindings(f.host, Machines[f.host])
        /\ \A h \in hosts : HostFindings(h, Machines[h]) \subseteq findings'
    <3> DEFINE F == UNION {HostFindings(h, Machines[h]) : h \in hosts}
    <3>1. findings' = F
      BY <1>1
    <3>2. /\ IsFiniteSet(F) /\ \A f \in F : IsFinding(f)
          /\ \A f \in F : f.host \in Host /\ f \in HostFindings(f.host, Machines[f.host])
          /\ \A h \in hosts : HostFindings(h, Machines[h]) \subseteq F
      BY <2>1, MatchedFacts
    <3> HIDE DEF F
    <3> QED
      BY <3>1, <3>2
  <2>3. \A f \in todo' : f \in findings' /\ f.cve \in Query
    BY <1>1, <2>2 DEF IsFinding
  <2>4. \A f \in findings' : Same(f, f)
    BY <2>2, SameItself
  <2> QED
    BY <1>1, <1>3, <2>1, <2>2, <2>3, <2>4 DEF FindingsInv
<1>6. NvdInv'
  <2>1. lookup.finding = {}
    BY <1>1 DEF IInv, NvdInv
  <2> QED
    BY <1>1, <1>3, <2>1, SameNvd DEF IInv, Stage
<1>7. RankInv'
  BY <1>1 DEF IInv, RankInv, Early
<1>8. ReportInv'
  BY <1>1, <1>3, SameReport DEF IInv, Stage
<1> QED
  BY <1>4, <1>5, <1>6, <1>7, <1>8 DEF IInv

-----------------------------------------------------------------------------
(* The NVD's phase is part of the order while it is asked.                 *)
LEMMA NvdPlace ==
    ASSUME IInv, phase \in {"nvd", "asking", "saving"}, config' = config,
           phase' \in {"nvd", "asking", "saving"}
    PROVE  \E i \in DOMAIN Order' : Order'[i] = Place'
<1>1. Place = "nvd" /\ Place' = "nvd" /\ Order' = Order /\ phase # "idle"
  BY DEF Place, Order
<1> QED
  BY <1>1 DEF IInv, PlanInv

(* The plan while the NVD is asked. *)
LEMMA NvdPlan ==
    ASSUME IInv, phase \in {"nvd", "asking", "saving"},
           phase' \in {"nvd", "asking", "saving"},
           UNCHANGED <<config, runs, pages, nseLeft, child>>
    PROVE  PlanInv' /\ child = "none"
<1>1. phase' \in {"idle"} \cup Names \cup Stage /\ phase' # "idle" /\ child = "none"
  BY DEF IInv, PlanInv, Names, Stage
<1> QED
  BY <1>1, NvdPlace DEF IInv, PlanInv, Process!TypeOK

(* A lookup ends with an answer the NVD has given. *)
LEMMA ApplyStep ==
    ASSUME IInv, phase \in {"nvd", "asking", "saving"},
           NEW f \in todo, lookup.finding \subseteq {f}, NEW answer \in Answers, Apply(f, answer),
           UNCHANGED <<config, runs, hosts, ranks, pages, nseLeft, child, stamp, written, disk,
                       nvd, ever>>,
           cache' \in [Query -> Whole([state : {"whole"}, answer : Answers])],
           \A q \in Query : cache'[q].state = "whole" => cache'[q].answer \in ever[q]
    PROVE  IInv'
<1> DEFINE g == IF answer = Unknown THEN f ELSE [f EXCEPT !.score = answer]
<1>1. /\ findings' = (findings \ {f}) \cup {g} /\ todo' = todo \ {f}
      /\ lookup' = NoLookup /\ phase' = "nvd"
  BY DEF Apply
<1>2. IsFinding(f) /\ f \in findings
  BY DEF IInv, FindingsInv
<1>3. IsFinding(g) /\ g.host = f.host /\ Same(f, f) /\ \A e : Same(f, e) <=> Same(g, e)
  <2>1. Same(f, f)
    BY <1>2, SameItself
  <2>2. CASE answer = Unknown
    BY <1>2, <2>1, <2>2
  <2>3. CASE answer # Unknown
    <3>1. answer \in 0 .. 100
      BY <2>3, AuditAssumption DEF Answers
    <3> QED
      BY <1>2, <2>1, <2>3, <3>1, Rescored
  <2> QED
    BY <2>2, <2>3
<1> HIDE DEF g
<1>4. PlanInv'
  BY <1>1, NvdPlan
<1>5. FindingsInv'
  <2>1. IsFiniteSet(findings')
    <3>1. IsFiniteSet(findings \ {f})
      BY FS_RemoveElement DEF IInv, FindingsInv
    <3> QED
      BY <1>1, <3>1, FS_AddElement
  <2>2. \A h \in findings' : IsFinding(h)
    BY <1>1, <1>3 DEF IInv, FindingsInv
  <2>3. \A h \in todo' : h \in findings' /\ h.cve \in Query
    BY <1>1 DEF IInv, FindingsInv
  <2>4. ASSUME config.command \notin {"cve", "enrich"}
        PROVE  /\ \A h \in findings' : \E e \in HostFindings(h.host, Machines[h.host]) : Same(h, e)
               /\ \A h \in hosts : \A e \in HostFindings(h, Machines[h]) :
                     \E i \in findings' : Same(i, e)
    <3>1. /\ \A h \in findings : \E e \in HostFindings(h.host, Machines[h.host]) : Same(h, e)
          /\ \A h \in hosts : \A e \in HostFindings(h, Machines[h]) :
                \E i \in findings : Same(i, e)
      BY <1>2, <2>4 DEF IInv, FindingsInv
    <3> QED
      BY <1>1, <1>2, <1>3, <3>1
  <2> QED
    BY <1>1, <2>1, <2>2, <2>3, <2>4 DEF IInv, FindingsInv
<1>6. NvdInv'
  <2>1. lookup' \in [finding : SUBSET todo', attempts : 0 .. 2, answer : Answers]
        /\ lookup'.finding = {}
    BY <1>1 DEF NoLookup, Answers
  <2>2. Answers' = Answers /\ Whole([state : {"whole"}, answer : Answers])'
                              = Whole([state : {"whole"}, answer : Answers])
    BY DEF Answers, Whole
  <2> QED
    BY <1>1, <2>1, <2>2 DEF IInv, NvdInv
<1>7. RankInv'
  BY <1>1 DEF IInv, RankInv, Early
<1>8. ReportInv'
  BY <1>1, SameReport DEF IInv
<1> QED
  BY <1>4, <1>5, <1>6, <1>7, <1>8 DEF IInv

(* Steps of a lookup that leave the finding as it is.                      *)
LEMMA AskingStep ==
    ASSUME IInv, phase \in {"nvd", "asking"}, phase' \in {"asking", "saving"},
           UNCHANGED <<config, runs, hosts, findings, todo, ranks, pages, nseLeft, child,
                       stamp, written, disk, nvd, ever>>,
           lookup' \in [finding : SUBSET todo, attempts : 0 .. 2, answer : Answers],
           \E f \in todo : lookup'.finding = {f},
           phase' = "saving" => \A f \in lookup'.finding : lookup'.answer \in ever[f.cve],
           cache' \in [Query -> Whole([state : {"whole"}, answer : Answers])],
           \A q \in Query : cache'[q].state = "whole" => cache'[q].answer \in ever[q]
    PROVE  IInv'
<1>1. PlanInv'
  BY NvdPlan
<1>2. FindingsInv' /\ RankInv'
  BY SameFindings, SameRanks DEF IInv, Early
<1>3. NvdInv'
  <2>1. Answers' = Answers /\ Whole([state : {"whole"}, answer : Answers])'
                              = Whole([state : {"whole"}, answer : Answers])
    BY DEF Answers, Whole
  <2> QED
    BY <2>1 DEF IInv, NvdInv
<1>4. ReportInv'
  BY SameReport DEF IInv
<1> QED
  BY <1>1, <1>2, <1>3, <1>4 DEF IInv

LEMMA CacheType ==
    ASSUME IInv
    PROVE  /\ cache \in [Query -> Whole([state : {"whole"}, answer : Answers])]
           /\ \A q \in Query : cache[q].state = "whole" => cache[q].answer \in ever[q]
           /\ ever \in [Query -> SUBSET Answers] /\ nvd \in [Query -> Answers]
           /\ \A q \in Query : nvd[q] \in ever[q]
           /\ \A f \in todo : f.cve \in Query
           /\ Unknown \in Answers
BY DEF IInv, NvdInv, FindingsInv, Answers

LEMMA CachedFacts ==
    ASSUME IInv, NEW q \in Query, NEW answer \in Cached(q)
    PROVE  answer \in Answers /\ answer \in ever[q] /\ (q \notin Keyword => answer # Unknown)
<1>1. answer \in Answers /\ cache[q] = [state |-> "whole", answer |-> answer]
      /\ (q \in Keyword \/ answer # Unknown)
  BY DEF Cached, Answers
<1>2. cache[q].state = "whole" /\ cache[q].answer = answer
  BY <1>1
<1> QED
  BY <1>1, <1>2, CacheType

LEMMA LookupStep ==
    ASSUME IInv, Lookup
    PROVE  IInv'
<1>1. /\ phase = "nvd"
      /\ UNCHANGED <<config, runs, hosts, ranks, pages, nseLeft, child, stamp, written, disk,
                     nvd, ever, cache>>
  BY DEF Lookup, output
<1>2. lookup.finding = {} /\ lookup \in [finding : SUBSET todo, attempts : 0 .. 2, answer : Answers]
  BY <1>1 DEF IInv, NvdInv
<1>3. PICK f \in todo :
         \/ \E answer \in Cached(f.cve) : Apply(f, answer)
         \/ /\ lookup' = [NoLookup EXCEPT !.finding = {f}]
            /\ phase' = "asking" /\ UNCHANGED <<findings, todo>>
  BY DEF Lookup
<1>4. f.cve \in Query
  BY CacheType
<1>5. CASE \E answer \in Cached(f.cve) : Apply(f, answer)
  <2>1. PICK answer \in Cached(f.cve) : Apply(f, answer)
    BY <1>5
  <2>2. answer \in Answers
    BY <1>4, CachedFacts
  <2>3. lookup.finding \subseteq {f}
    BY <1>2
  <2> QED
    BY <1>1, <2>1, <2>2, <2>3, ApplyStep, CacheType
<1>6. CASE /\ lookup' = [NoLookup EXCEPT !.finding = {f}]
           /\ phase' = "asking" /\ UNCHANGED <<findings, todo>>
  <2>1. lookup' = [finding |-> {f}, attempts |-> 0, answer |-> Unknown]
    BY <1>6 DEF NoLookup
  <2>2. lookup' \in [finding : SUBSET todo, attempts : 0 .. 2, answer : Answers]
        /\ lookup'.finding = {f}
    BY <2>1, CacheType
  <2> QED
    BY <1>1, <1>6, <2>2, AskingStep, CacheType
<1> QED
  BY <1>3, <1>5, <1>6

(* Emptying a cache file, or filling it with a published answer.           *)
LEMMA CacheWrite ==
    ASSUME IInv, NEW q \in Query, NEW file,
           \/ file = Torn
           \/ \E a \in Answers : a \in ever[q] /\ file = [state |-> "whole", answer |-> a],
           cache' = [cache EXCEPT ![q] = file]
    PROVE  /\ cache' \in [Query -> Whole([state : {"whole"}, answer : Answers])]
           /\ \A r \in Query : cache'[r].state = "whole" => cache'[r].answer \in ever[r]
<1>1. /\ file \in Whole([state : {"whole"}, answer : Answers])
      /\ file.state = "whole" => file.answer \in ever[q]
  BY DEF Whole, Torn
<1> QED
  BY <1>1, CacheType

LEMMA NvdAnswersStep ==
    ASSUME IInv, NvdAnswers
    PROVE  IInv'
<1>1. /\ phase = "asking"
      /\ UNCHANGED <<config, runs, hosts, ranks, pages, nseLeft, child, stamp, written, disk,
                     nvd, ever>>
  BY DEF NvdAnswers, output
<1>2. PICK f \in lookup.finding :
         \/ /\ cache' = [cache EXCEPT ![f.cve] = Torn]
            /\ phase' = "saving"
            /\ lookup' = [lookup EXCEPT !.answer = nvd[f.cve]]
            /\ UNCHANGED <<findings, todo>>
         \/ /\ Apply(f, nvd[f.cve])
            /\ UNCHANGED cache
  BY DEF NvdAnswers
<1>3. /\ lookup \in [finding : SUBSET todo, attempts : 0 .. 2, answer : Answers]
      /\ f \in todo /\ lookup.finding = {f}
  BY <1>2 DEF IInv, NvdInv
<1>4. f.cve \in Query /\ nvd[f.cve] \in Answers /\ nvd[f.cve] \in ever[f.cve]
  BY <1>3, CacheType
<1>5. CASE /\ cache' = [cache EXCEPT ![f.cve] = Torn]
           /\ phase' = "saving"
           /\ lookup' = [lookup EXCEPT !.answer = nvd[f.cve]]
           /\ UNCHANGED <<findings, todo>>
  <2>1. /\ lookup' \in [finding : SUBSET todo, attempts : 0 .. 2, answer : Answers]
        /\ lookup'.finding = {f} /\ lookup'.answer = nvd[f.cve]
    BY <1>3, <1>4, <1>5
  <2>2. /\ cache' \in [Query -> Whole([state : {"whole"}, answer : Answers])]
        /\ \A q \in Query : cache'[q].state = "whole" => cache'[q].answer \in ever[q]
    BY <1>4, <1>5, CacheWrite
  <2> QED
    BY <1>1, <1>3, <1>4, <1>5, <2>1, <2>2, AskingStep
<1>6. CASE Apply(f, nvd[f.cve]) /\ UNCHANGED cache
  BY <1>1, <1>3, <1>4, <1>6, ApplyStep, CacheType
<1> QED
  BY <1>2, <1>5, <1>6

LEMMA CacheSavedStep ==
    ASSUME IInv, CacheSaved
    PROVE  IInv'
<1>1. /\ phase = "saving"
      /\ UNCHANGED <<config, runs, hosts, ranks, pages, nseLeft, child, stamp, written, disk,
                     nvd, ever>>
  BY DEF CacheSaved, output
<1>2. PICK f \in lookup.finding :
         /\ Apply(f, lookup.answer)
         /\ cache' \in {cache, [cache EXCEPT ![f.cve] =
                                   [state |-> "whole", answer |-> lookup.answer]]}
  BY DEF CacheSaved
<1>3. /\ f \in todo /\ lookup.finding = {f} /\ lookup.answer \in Answers
      /\ lookup.answer \in ever[f.cve]
  BY <1>1, <1>2 DEF IInv, NvdInv
<1>4. f.cve \in Query
  BY <1>3, CacheType
<1>5. /\ cache' \in [Query -> Whole([state : {"whole"}, answer : Answers])]
      /\ \A q \in Query : cache'[q].state = "whole" => cache'[q].answer \in ever[q]
  <2>1. CASE cache' = cache
    BY <2>1, CacheType
  <2>2. CASE cache' = [cache EXCEPT ![f.cve] = [state |-> "whole", answer |-> lookup.answer]]
    BY <1>3, <1>4, <2>2, CacheWrite
  <2> QED
    BY <1>2, <2>1, <2>2
<1> QED
  BY <1>1, <1>2, <1>3, <1>5, ApplyStep

LEMMA NvdRefusesStep ==
    ASSUME IInv, NvdRefuses
    PROVE  IInv'
<1>1. /\ phase = "asking"
      /\ UNCHANGED <<config, runs, hosts, ranks, pages, nseLeft, child, stamp, written, disk,
                     nvd, ever, cache>>
  BY DEF NvdRefuses, output
<1>2. /\ lookup \in [finding : SUBSET todo, attempts : 0 .. 2, answer : Answers]
      /\ \E f \in todo : lookup.finding = {f}
  BY <1>1 DEF IInv, NvdInv
<1>3. CASE /\ lookup.attempts < 2 /\ lookup' = [lookup EXCEPT !.attempts = @ + 1]
           /\ UNCHANGED <<findings, todo, phase>>
  <2>1. /\ lookup' \in [finding : SUBSET todo, attempts : 0 .. 2, answer : Answers]
        /\ lookup'.finding = lookup.finding
    BY <1>2, <1>3
  <2> QED
    BY <1>1, <1>2, <1>3, <2>1, AskingStep, CacheType
<1>4. ASSUME NEW f \in lookup.finding, Apply(f, Unknown)
      PROVE  IInv'
  <2>1. f \in todo /\ lookup.finding = {f}
    BY <1>2
  <2> QED
    BY <1>1, <1>4, <2>1, ApplyStep, CacheType
<1> QED
  BY <1>3, <1>4 DEF NvdRefuses

-----------------------------------------------------------------------------
(* A phase is over and the next one begins, with no finding touched.       *)
LEMMA NextPhaseStep ==
    ASSUME IInv, phase \in Names, phase \notin {"close", "report"}, phase' = After(phase),
           child = "none", nseLeft' \in 0 .. 2, pages' \in SUBSET WebPages,
           UNCHANGED <<config, runs, hosts, findings, todo, lookup, child,
                       stamp, written, disk, nvd, ever, cache>>,
           phase = "rank" \/ ranks' = ranks,
           ranks' # {} => \E percentile \in {0, 95}, known \in SUBSET Cves :
                             ranks' = Rows(percentile, known)
    PROVE  IInv'
<1>1. \E i \in DOMAIN Order : Order[i] = phase
  BY Here DEF IInv
<1>2. /\ phase' \in Names \ {"scan"} /\ phase' \notin {"idle"} \cup Stage
      /\ \E i \in DOMAIN Order' : Order'[i] = Place'
      /\ phase' = "match" => phase = "scan"
      /\ phase' \in Early => phase \in Early
      /\ phase = "rank" => phase' \notin Early
      /\ phase' = "close" => config.formats = {}
  BY <1>1, Onward DEF IInv
<1>3. PlanInv'
  BY <1>2 DEF IInv, PlanInv, Process!TypeOK
<1>4. FindingsInv'
  BY <1>2, SameFindings DEF IInv
<1>5. NvdInv'
  BY <1>2, SameNvd DEF IInv, Stage, Names
<1>6. RankInv'
  <2>1. /\ Cves' = Cves /\ Early' = Early
        /\ \A percentile, known : Rows(percentile, known)' = Rows(percentile, known)
    BY DEF Cves, Rows, Early
  <2>2. phase' \in Early \cup {"asking", "saving"} => ranks' = {}
    BY <1>2 DEF IInv, RankInv, Stage
  <2> QED
    BY <2>1, <2>2 DEF RankInv
<1>7. ReportInv'
  BY <1>2, SameReport DEF IInv, Stage
<1> QED
  BY <1>3, <1>4, <1>5, <1>6, <1>7 DEF IInv

(* No child runs outside the nse phase. *)
LEMMA NoChild ==
    ASSUME IInv, phase # "nse"
    PROVE  child = "none"
BY DEF IInv, PlanInv

(* The ranks a phase leaves alone are still of its findings.               *)
LEMMA OldRanks ==
    ASSUME IInv, ranks' = ranks
    PROVE  ranks' # {} => \E percentile \in {0, 95}, known \in SUBSET Cves :
                              ranks' = Rows(percentile, known)
BY DEF IInv, RankInv

LEMMA NvdOverStep ==
    ASSUME IInv, NvdOver
    PROVE  IInv'
<1>1. /\ phase = "nvd" /\ phase' = After(phase)
      /\ UNCHANGED <<config, runs, hosts, findings, ranks, pages, todo, lookup, nseLeft, child,
                     stamp, written, disk, nvd, ever, cache>>
  BY DEF NvdOver, found, nvdVars, output
<1>2. phase \in Names /\ nseLeft' \in 0 .. 2 /\ pages' \in SUBSET WebPages /\ child = "none"
  BY <1>1, NoChild DEF IInv, PlanInv, Names
<1> QED
  BY <1>1, <1>2, OldRanks, NextPhaseStep

LEMMA RankStep ==
    ASSUME IInv, Rank
    PROVE  IInv'
<1>1. /\ phase = "rank" /\ phase' = After(phase) /\ nseLeft' \in {0, 2}
      /\ \E percentile \in {0, 95}, known \in SUBSET Cves : ranks' = Rows(percentile, known)
      /\ UNCHANGED <<config, runs, hosts, findings, pages, todo, lookup, child,
                     stamp, written, disk, nvd, ever, cache>>
  BY DEF Rank, nvdVars, output
<1>2. phase \in Names /\ nseLeft' \in 0 .. 2 /\ pages' \in SUBSET WebPages /\ child = "none"
  BY <1>1, NoChild DEF IInv, PlanInv, Names
<1> QED
  BY <1>1, <1>2, NextPhaseStep

LEMMA AsideStep ==
    ASSUME IInv, Aside
    PROVE  IInv'
<1>1. /\ phase \in {"identify", "wireless", "exposure"} /\ phase' = After(phase)
      /\ UNCHANGED <<config, runs, hosts, findings, ranks, pages, todo, lookup, nseLeft, child,
                     stamp, written, disk, nvd, ever, cache>>
  BY DEF Aside, found, nvdVars, output
<1>2. phase \in Names /\ nseLeft' \in 0 .. 2 /\ pages' \in SUBSET WebPages /\ child = "none"
  BY <1>1, NoChild DEF IInv, PlanInv, Names
<1> QED
  BY <1>1, <1>2, OldRanks, NextPhaseStep

(* A step to the end of the order, with no finding touched.                *)
LEMMA CloseStep ==
    ASSUME IInv, phase \in Names, child = "none", phase' = "close",
           pages' \in SUBSET WebPages,
           UNCHANGED <<config, runs, hosts, findings, todo, lookup, ranks, nseLeft, child,
                       stamp, written, disk, nvd, ever, cache>>,
           \/ config.formats \ written \subseteq {"pdf"}
           \/ config.command = "web" /\ pages' = {}
    PROVE  IInv'
<1>1. /\ Len(Order) \in DOMAIN Order /\ Order[Len(Order)] = "close" /\ Order' = Order
  BY LastPlace DEF IInv, PlanInv, Order
<1>2. Place' = phase' /\ phase' \in Names /\ phase' # "idle"
      /\ phase' \notin Early \cup Stage \cup {"match"} /\ phase \notin Stage
  BY DEF Place, Names, Early, Stage
<1>3. PlanInv'
  BY <1>1, <1>2 DEF IInv, PlanInv, Process!TypeOK
<1>4. FindingsInv' /\ RankInv'
  BY <1>2, SameFindings, SameRanks DEF IInv, Stage
<1>5. NvdInv'
  BY <1>2, SameNvd DEF IInv, Stage
<1>6. ReportInv'
  BY SameReport DEF IInv
<1> QED
  BY <1>3, <1>4, <1>5, <1>6 DEF IInv

LEMMA WebStep ==
    ASSUME IInv, Web
    PROVE  IInv'
<1>1. /\ phase = "web" /\ pages' \in SUBSET WebPages
      /\ phase' = IF config.command = "web" /\ pages' = {} THEN "close" ELSE After(phase)
      /\ UNCHANGED <<config, runs, hosts, findings, ranks, todo, lookup, nseLeft, child,
                     stamp, written, disk, nvd, ever, cache>>
  BY DEF Web, nvdVars, output
<1>2. phase \in Names /\ nseLeft' \in 0 .. 2 /\ child = "none"
  BY <1>1, NoChild DEF IInv, PlanInv, Names
<1>3. CASE config.command = "web" /\ pages' = {}
  BY <1>1, <1>2, <1>3, CloseStep
<1>4. CASE ~(config.command = "web" /\ pages' = {})
  BY <1>1, <1>2, <1>4, OldRanks, NextPhaseStep
<1> QED
  BY <1>3, <1>4

-----------------------------------------------------------------------------
(* A step in which only the nmap of an NSE run does something.             *)
LEMMA NseSameStep ==
    ASSUME IInv, phase = "nse" \/ UNCHANGED <<nseLeft, child>>, phase' = phase, NseFrame,
           nseLeft' \in 0 .. 2, Process!TypeOK',
           child' # "none" => nseLeft' > 0
    PROVE  IInv'
<1>1. UNCHANGED <<config, runs, hosts, findings, ranks, pages, todo, lookup,
                  stamp, written, disk, nvd, ever, cache>>
  BY DEF NseFrame, found, nvdVars, output
<1>2. Place' = Place /\ Order' = Order
  BY <1>1 DEF Place, Order
<1>3. PlanInv'
  BY <1>1, <1>2 DEF IInv, PlanInv, Idle
<1>4. FindingsInv' /\ NvdInv' /\ RankInv'
  BY <1>1, SameFindings, SameNvd, SameRanks DEF IInv
<1>5. ReportInv'
  BY <1>1, SameReport DEF IInv, ReportInv
<1> QED
  BY <1>3, <1>4, <1>5 DEF IInv

LEMMA NseStep ==
    ASSUME IInv, Nse
    PROVE  IInv'
<1>1. nseLeft \in 0 .. 2 /\ Process!TypeOK /\ (child # "none" => phase = "nse" /\ nseLeft > 0)
  BY DEF IInv, PlanInv
<1>2. CASE NseStart
  BY <1>1, <1>2, NseSameStep DEF NseStart, Process!Start, Process!TypeOK
<1>3. CASE NseExit
  BY <1>1, <1>3, NseSameStep DEF NseExit, Process!Exit, Process!TypeOK
<1>4. CASE NseTimeout
  BY <1>1, <1>4, NseSameStep DEF NseTimeout, Process!Kill, Process!TypeOK
<1>5. CASE NseReaped
  BY <1>1, <1>5, NseSameStep
     DEF NseReaped, Process!Collect, Process!Wait, Process!Exited, Process!TypeOK
<1>6. CASE NseOver
  <2>1. /\ phase = "nse" /\ phase' = After(phase) /\ child = "none"
        /\ UNCHANGED <<config, runs, hosts, findings, ranks, pages, todo, lookup, nseLeft, child,
                       stamp, written, disk, nvd, ever, cache>>
    BY <1>1, <1>6 DEF NseOver, NseFrame, found, nvdVars, output
  <2>2. phase \in Names /\ nseLeft' \in 0 .. 2 /\ pages' \in SUBSET WebPages
    BY <1>1, <2>1 DEF IInv, PlanInv, Names
  <2> QED
    BY <2>1, <2>2, OldRanks, NextPhaseStep
<1> QED
  BY <1>2, <1>3, <1>4, <1>5, <1>6 DEF Nse

-----------------------------------------------------------------------------
(* One format is the next to be written. *)
LEMMA OnePending ==
    ASSUME NEW f \in Format, NEW g \in Format, Pending(f), Pending(g)
    PROVE  f = g
<1>1. f \in {"json", "html", "pdf"} /\ g \in {"json", "html", "pdf"}
  BY DEF Format
<1> QED
  BY <1>1 DEF Pending

(* While a report is written, nothing that was found is touched.           *)
LEMMA WritePlan ==
    ASSUME IInv, phase \in {"report", "writing"}, phase' \in {"report", "writing", "close"},
           UNCHANGED <<config, runs, hosts, findings, ranks, pages, todo, lookup, nseLeft, child,
                       nvd, ever, cache>>
    PROVE  PlanInv' /\ FindingsInv' /\ NvdInv' /\ RankInv'
<1>1. phase' \notin Early \cup {"asking", "saving", "scan", "match"}
  BY DEF Early
<1>2. phase' \in {"idle"} \cup Names \cup Stage
  BY DEF Names, Stage
<1>3. \E i \in DOMAIN Order' : Order'[i] = Place'
  <2>1. Order' = Order
    BY DEF Order
  <2>2. CASE phase' = "close"
    <3>1. Place' = "close"
      BY <2>2 DEF Place
    <3> QED
      BY <2>1, <3>1, LastPlace DEF IInv, PlanInv
  <2>3. CASE phase' # "close"
    <3>1. Place = "report" /\ Place' = "report" /\ phase # "idle"
      BY <2>3 DEF Place
    <3> QED
      BY <2>1, <3>1 DEF IInv, PlanInv
  <2> QED
    BY <2>2, <2>3
<1>4. PlanInv'
  BY <1>2, <1>3 DEF IInv, PlanInv, Process!TypeOK
<1>5. FindingsInv' /\ NvdInv' /\ RankInv'
  BY <1>1, SameFindings, SameNvd, SameRanks DEF IInv
<1> QED
  BY <1>4, <1>5

LEMMA OpenStep ==
    ASSUME IInv, Open
    PROVE  IInv'
<1>1. /\ phase = "report" /\ phase' = "writing"
      /\ UNCHANGED <<config, runs, hosts, findings, ranks, pages, todo, lookup, nseLeft, child,
                     written, nvd, ever, cache>>
  BY DEF Open, found, nvdVars
<1>2. PICK f \in Format : /\ Pending(f) /\ Stamped
                          /\ disk[<<stamp', f>>] = NoFile
                          /\ disk' = [disk EXCEPT ![<<stamp', f>>] = Torn]
  BY DEF Open
<1>3. /\ stamp \in Stamps \cup {NoStamp} /\ written \subseteq config.formats
      /\ disk \in [Stamps \X Format -> Whole([state : {"whole"}, run : Nat])]
      /\ \A g \in written : /\ stamp \in Stamps
                            /\ disk[<<stamp, g>>] = [state |-> "whole", run |-> runs]
  BY DEF IInv, ReportInv
<1>4. stamp' \in Stamps /\ (stamp \in Stamps => stamp' = stamp)
  <2>1. NoStamp \notin Stamps
    BY AuditAssumption
  <2> QED
    BY <1>2, <1>3, <2>1 DEF Stamped
<1>5. disk' \in [Stamps \X Format -> Whole([state : {"whole"}, run : Nat])]
  BY <1>2, <1>3 DEF Whole
<1>6. ASSUME NEW g \in written
      PROVE  stamp' \in Stamps /\ disk'[<<stamp', g>>] = [state |-> "whole", run |-> runs]
  <2>1. stamp' = stamp /\ f # g /\ g \in Format
    <3>1. config.formats \subseteq Format
      BY Commanded DEF IInv, PlanInv
    <3> QED
      BY <1>2, <1>3, <1>4, <1>6, <3>1 DEF Pending
  <2>2. <<stamp', g>> # <<stamp', f>> /\ <<stamp', g>> \in Stamps \X Format
    BY <1>4, <2>1
  <2>3. disk'[<<stamp', g>>] = disk[<<stamp', g>>]
    BY <1>2, <1>3, <2>2
  <2> QED
    BY <1>3, <1>4, <1>6, <2>1, <2>3
<1>7. Pending(f)' /\ disk'[<<stamp', f>>] = Torn
  BY <1>1, <1>2, <1>3, <1>4 DEF Pending
<1>8. ReportInv'
  <2>1. Format' = Format /\ Whole([state : {"whole"}, run : Nat])'
                              = Whole([state : {"whole"}, run : Nat])
    BY DEF Format, Whole
  <2>2. written' \subseteq config'.formats
    BY <1>1, <1>3
  <2>3. \E g \in Format : Pending(g)' /\ disk'[<<stamp', g>>] = Torn
    BY <1>7
  <2> QED
    BY <1>1, <1>4, <1>5, <1>6, <2>1, <2>2, <2>3 DEF ReportInv
<1> QED
  BY <1>1, <1>8, WritePlan DEF IInv

LEMMA WriteStep ==
    ASSUME IInv, Write
    PROVE  /\ IInv'
           /\ \E f \in Format : /\ disk[<<stamp, f>>] = Torn
                                /\ disk' = [disk EXCEPT ![<<stamp, f>>] =
                                              [state |-> "whole", run |-> runs]]
<1>1. /\ phase = "writing" /\ phase' = IF written' = config.formats THEN "close" ELSE "report"
      /\ UNCHANGED <<config, runs, hosts, findings, ranks, pages, todo, lookup, nseLeft, child,
                     stamp, nvd, ever, cache>>
  BY DEF Write, found, nvdVars
<1>2. PICK f \in Format : /\ Pending(f) /\ written' = written \cup {f}
                          /\ disk' = [disk EXCEPT ![<<stamp, f>>] =
                                         [state |-> "whole", run |-> runs]]
  BY DEF Write
<1>3. /\ stamp \in Stamps /\ written \subseteq config.formats /\ runs \in Nat
      /\ disk \in [Stamps \X Format -> Whole([state : {"whole"}, run : Nat])]
      /\ \A g \in written : disk[<<stamp, g>>] = [state |-> "whole", run |-> runs]
      /\ \E g \in Format : Pending(g) /\ disk[<<stamp, g>>] = Torn
  BY <1>1 DEF IInv, ReportInv, PlanInv
<1>4. disk[<<stamp, f>>] = Torn
  BY <1>2, <1>3, OnePending
<1>5. disk' \in [Stamps \X Format -> Whole([state : {"whole"}, run : Nat])]
  <2>1. [state |-> "whole", run |-> runs] \in Whole([state : {"whole"}, run : Nat])
    BY <1>3 DEF Whole
  <2> QED
    BY <1>2, <1>3, <2>1
<1>6. ASSUME NEW g \in written'
      PROVE  disk'[<<stamp, g>>] = [state |-> "whole", run |-> runs]
  <2>1. config.formats \subseteq Format
    BY Commanded DEF IInv, PlanInv
  <2>2. g \in Format /\ <<stamp, g>> \in Stamps \X Format
    BY <1>2, <1>3, <1>6, <2>1
  <2>3. CASE g = f
    BY <1>2, <1>3, <2>2, <2>3
  <2>4. CASE g # f
    <3>1. <<stamp, g>> # <<stamp, f>> /\ g \in written
      BY <1>2, <1>6, <2>4
    <3> QED
      BY <1>2, <1>3, <2>2, <3>1
  <2> QED
    BY <2>3, <2>4
<1>7. ReportInv'
  <2>1. Format' = Format /\ Whole([state : {"whole"}, run : Nat])'
                              = Whole([state : {"whole"}, run : Nat])
    BY DEF Format, Whole
  <2>2. written' \subseteq config'.formats /\ phase' # "writing"
        /\ (phase' = "close" => config'.formats \ written' = {})
    BY <1>1, <1>2, <1>3 DEF Pending
  <2> QED
    BY <1>1, <1>3, <1>5, <1>6, <2>1, <2>2 DEF ReportInv
<1> QED
  BY <1>1, <1>2, <1>4, <1>7, WritePlan DEF IInv

LEMMA NoPdfStep ==
    ASSUME IInv, NoPdf
    PROVE  IInv'
<1>1. /\ phase = "report" /\ phase' = "close" /\ Pending("pdf")
      /\ UNCHANGED <<config, runs, hosts, findings, ranks, pages, todo, lookup, nseLeft, child,
                     stamp, written, disk, nvd, ever, cache>>
  BY DEF NoPdf, found, nvdVars, output
<1>2. config.formats \ written \subseteq {"pdf"}
  BY <1>1 DEF Pending
<1>3. ReportInv'
  BY <1>1, <1>2, SameReport DEF IInv
<1> QED
  BY <1>1, <1>3, WritePlan DEF IInv

-----------------------------------------------------------------------------
LEMMA QuietStep ==
    ASSUME IInv, UNCHANGED vars
    PROVE  IInv'
<1>1. phase' = phase /\ UNCHANGED <<nseLeft, child>> /\ NseFrame
  BY DEF vars, NseFrame
<1> QED
  BY <1>1, NseSameStep DEF IInv, PlanInv, Process!TypeOK

LEMMA NextInv ==
    ASSUME IInv, [Next]_vars
    PROVE  IInv'
<1>1. CASE Nvd
  <2>1. CASE NvdGarbled
    BY <2>1, EndStep DEF NvdGarbled
  <2> QED
    BY <1>1, <2>1, LookupStep, NvdAnswersStep, CacheSavedStep, NvdRefusesStep, NvdOverStep DEF Nvd
<1>2. CASE Report
  <2>1. CASE WriteFails
    BY <2>1, EndStep DEF WriteFails
  <2> QED
    BY <1>2, <2>1, OpenStep, WriteStep, NoPdfStep DEF Report
<1>3. CASE Return \/ Raise \/ Crash
  BY <1>3, EndStep DEF Return, Raise, Crash
<1>4. CASE UNCHANGED vars
  BY <1>4, QuietStep
<1> QED
  BY <1>1, <1>2, <1>3, <1>4, StartStep, ScanStep, MatchStep, RankStep, NseStep, WebStep, AsideStep,
     PublishStep DEF Next, Finished

LEMMA InitInv ==
    ASSUME Init
    PROVE  IInv
<1>1. /\ config \in Commands /\ phase = "idle" /\ runs = 0 /\ Idle
      /\ nvd \in [Query -> Answers] /\ ever = [q \in Query |-> {nvd[q]}]
      /\ cache = [q \in Query |-> NoFile] /\ disk = [f \in Stamps \X Format |-> NoFile]
  BY DEF Init, Answers
<1>2. /\ hosts = {} /\ findings = {} /\ ranks = {} /\ pages = {} /\ todo = {}
      /\ lookup = [finding |-> {}, attempts |-> 0, answer |-> Unknown]
      /\ nseLeft = 0 /\ child = "none" /\ stamp = NoStamp /\ written = {}
  BY <1>1 DEF Idle, NoLookup
<1>3. PlanInv
  BY <1>1, <1>2, AuditAssumption DEF PlanInv, Process!TypeOK
<1>4. FindingsInv
  BY <1>1, <1>2, FS_EmptySet DEF FindingsInv
<1>5. NvdInv
  <2>1. lookup \in [finding : SUBSET todo, attempts : 0 .. 2, answer : Answers]
        /\ lookup.finding = {}
    BY <1>2 DEF Answers
  <2>2. ever \in [Query -> SUBSET Answers] /\ \A q \in Query : nvd[q] \in ever[q]
    BY <1>1
  <2>3. /\ cache \in [Query -> Whole([state : {"whole"}, answer : Answers])]
        /\ \A q \in Query : cache[q].state # "whole"
    BY <1>1 DEF Whole, NoFile
  <2> QED
    BY <1>1, <2>1, <2>2, <2>3 DEF NvdInv
<1>6. RankInv
  BY <1>2 DEF RankInv
<1>7. ReportInv
  <2>1. disk \in [Stamps \X Format -> Whole([state : {"whole"}, run : Nat])]
    BY <1>1 DEF Whole
  <2> QED
    BY <1>1, <1>2, <2>1 DEF ReportInv
<1> QED
  BY <1>3, <1>4, <1>5, <1>6, <1>7 DEF IInv

THEOREM Invariance == Spec => []IInv
<1>1. Init => IInv
  BY InitInv
<1>2. IInv /\ [Next]_vars => IInv'
  BY NextInv
<1> QED
  BY <1>1, <1>2, PTL DEF Spec

-----------------------------------------------------------------------------
(* cli.py, generator.py: whatever fails and whenever the process is killed,*)
(* a command goes through its phases with at most one lookup and one child *)
(* under way, and writes only formats it was asked for.                    *)
THEOREM TypeCorrectness == Spec => []TypeOK
<1>1. ASSUME IInv PROVE TypeOK
  <2>1. phase \in {"idle", "scan", "match", "nvd", "rank", "nse", "web", "identify",
                   "wireless", "exposure", "report", "close"} \cup Stage
    BY <1>1 DEF IInv, PlanInv, Names
  <2>2. lookup.finding \subseteq todo /\ Cardinality(lookup.finding) <= 1
        /\ lookup.attempts \in 0 .. 2
    <3>1. /\ lookup \in [finding : SUBSET todo, attempts : 0 .. 2, answer : Answers]
          /\ lookup.finding = {} \/ \E f \in todo : lookup.finding = {f}
      BY <1>1 DEF IInv, NvdInv
    <3>2. Cardinality({}) = 0 /\ \A f \in todo : Cardinality({f}) = 1
      BY FS_EmptySet, FS_Singleton
    <3>3. Cardinality(lookup.finding) <= 1
      BY <3>1, <3>2
    <3> QED
      BY <3>1, <3>3
  <2>3. nvd \in [Query -> Scores \cup {Unknown}]
        /\ \A q \in Query : cache[q].state \in {"none", "torn", "whole"}
    BY <1>1 DEF IInv, NvdInv, Answers, Whole, NoFile, Torn
  <2>4. \A f \in Stamps \X Format : disk[f].state \in {"none", "torn", "whole"}
    BY <1>1 DEF IInv, ReportInv, Whole, NoFile, Torn
  <2>5. todo \subseteq findings /\ hosts \subseteq Host
        /\ (phase \in {"asking", "saving"} <=> lookup.finding # {})
        /\ stamp \in Stamps \cup {NoStamp} /\ written \subseteq config.formats
    BY <1>1 DEF IInv, FindingsInv, NvdInv, ReportInv
  <2> QED
    BY <1>1, <2>1, <2>2, <2>3, <2>4, <2>5 DEF IInv, PlanInv, TypeOK
<1> QED
  BY <1>1, Invariance, PTL

-----------------------------------------------------------------------------
(* Only these steps touch the report files. *)
LEMMA DiskStep ==
    ASSUME IInv, [Next]_vars, NEW f \in Stamps \X Format, disk[f].state = "whole"
    PROVE  disk'[f] = disk[f]
<1>1. /\ stamp \in Stamps \cup {NoStamp}
      /\ disk \in [Stamps \X Format -> Whole([state : {"whole"}, run : Nat])]
  BY DEF IInv, ReportInv
<1>2. CASE Open
  <2>1. \E s \in Stamps \cup {NoStamp}, g \in Format :
           disk[<<s, g>>] = NoFile /\ disk' = [disk EXCEPT ![<<s, g>>] = Torn]
    BY <1>1, <1>2 DEF Open, Stamped
  <2>2. PICK s \in Stamps \cup {NoStamp}, g \in Format :
           disk[<<s, g>>] = NoFile /\ disk' = [disk EXCEPT ![<<s, g>>] = Torn]
    BY <2>1
  <2>3. f # <<s, g>>
    BY <2>2 DEF NoFile
  <2> QED
    BY <1>1, <2>2, <2>3
<1>3. CASE Write
  <2>1. PICK g \in Format : /\ disk[<<stamp, g>>] = Torn
                            /\ disk' = [disk EXCEPT ![<<stamp, g>>] =
                                          [state |-> "whole", run |-> runs]]
    BY <1>3, WriteStep
  <2>2. f # <<stamp, g>>
    BY <2>1 DEF Torn
  <2> QED
    BY <1>1, <2>1, <2>2
<1>4. CASE disk' = disk
  BY <1>4
<1>5. Open \/ Write \/ disk' = disk
  BY DEF Next, Start, Scan, Match, Nvd, Lookup, NvdAnswers, CacheSaved, NvdRefuses, NvdGarbled,
         NvdOver, Rank, Nse, NseStart, NseExit, NseTimeout, NseReaped, NseOver, NseFrame, Web,
         Aside, Report, NoPdf, WriteFails, Return, Raise, Crash, Publish, Finished, vars, output
<1> QED
  BY <1>2, <1>3, <1>4, <1>5

(* generator.py:314-325, 339-353: a report once whole is never written to  *)
(* again, by any later command, under any timestamps; and what a command   *)
(* says it has written is there, in full.                                  *)
THEOREM ReportsAreKept == Spec => ReportsKept
<1>1. ASSUME IInv, [Next]_vars
      PROVE  /\ \A f \in Stamps \X Format : disk[f].state = "whole" => disk'[f] = disk[f]
             /\ phase = "close" =>
                  /\ \A f \in written : disk[<<stamp, f>>] = [state |-> "whole", run |-> runs]
                  /\ \/ config.formats \ written \subseteq {"pdf"}
                     \/ config.command = "web" /\ pages = {}
  BY <1>1, DiskStep DEF IInv, ReportInv
<1>2. IInv /\ [Next]_vars =>
         [/\ \A f \in Stamps \X Format : disk[f].state = "whole" => disk'[f] = disk[f]
          /\ phase = "close" =>
               /\ \A f \in written : disk[<<stamp, f>>] = [state |-> "whole", run |-> runs]
               /\ \/ config.formats \ written \subseteq {"pdf"}
                  \/ config.command = "web" /\ pages = {}]_vars
  BY <1>1
<1> QED
  BY <1>2, Invariance, PTL DEF Spec, ReportsKept

-----------------------------------------------------------------------------
Honest(f) ==
    \E score \in (ever[f.cve] \ {Unknown}) \cup {f.score} :
        /\ [f EXCEPT !.score = score] \in findings'
        /\ phase = "nvd" /\ f.cve \notin Keyword => score \in ever[f.cve]

LEMMA ApplyHonest ==
    ASSUME IInv, NEW f \in todo, NEW answer \in ever[f.cve] \cup {Unknown}, Apply(f, answer),
           phase = "nvd" /\ f.cve \notin Keyword => answer # Unknown
    PROVE  \A g \in todo \ todo' : Honest(g)
<1>1. \A g \in todo \ todo' : g = f
  BY DEF Apply
<1>2. IsFinding(f)
  BY DEF IInv, FindingsInv
<1>3. CASE answer = Unknown
  <2>1. f \in findings' /\ [f EXCEPT !.score = f.score] = f
    BY <1>2, <1>3, SameItself DEF Apply
  <2> QED
    BY <1>1, <1>3, <2>1 DEF Honest
<1>4. CASE answer # Unknown
  <2>1. [f EXCEPT !.score = answer] \in findings'
    BY <1>4 DEF Apply
  <2> QED
    BY <1>1, <1>4, <2>1 DEF Honest
<1> QED
  BY <1>3, <1>4

LEMMA HonestStep ==
    ASSUME IInv, [Next]_vars, phase' = "nvd"
    PROVE  \A f \in todo \ todo' : Honest(f)
<1>1. CASE Lookup
  <2>1. PICK f \in todo : (\E answer \in Cached(f.cve) : Apply(f, answer)) \/ todo' = todo
    BY <1>1 DEF Lookup
  <2>2. CASE \E answer \in Cached(f.cve) : Apply(f, answer)
    <3>1. PICK answer \in Cached(f.cve) : Apply(f, answer)
      BY <2>2
    <3>2. /\ answer \in ever[f.cve] \cup {Unknown}
          /\ f.cve \notin Keyword => answer # Unknown
      BY CachedFacts, CacheType
    <3> QED
      BY <3>1, <3>2, ApplyHonest
  <2> QED
    BY <2>1, <2>2
<1>2. CASE NvdAnswers
  <2>1. PICK f \in lookup.finding : Apply(f, nvd[f.cve])
    BY <1>2 DEF NvdAnswers
  <2>2. f \in todo /\ phase = "asking"
    BY <1>2 DEF NvdAnswers, IInv, NvdInv
  <2>3. nvd[f.cve] \in ever[f.cve] \cup {Unknown}
    BY <2>2, CacheType
  <2> QED
    BY <2>1, <2>2, <2>3, ApplyHonest
<1>3. CASE CacheSaved
  <2>1. PICK f \in lookup.finding : Apply(f, lookup.answer)
    BY <1>3 DEF CacheSaved
  <2>2. f \in todo /\ phase = "saving" /\ lookup.answer \in ever[f.cve] \cup {Unknown}
    BY <1>3 DEF CacheSaved, IInv, NvdInv
  <2> QED
    BY <2>1, <2>2, ApplyHonest
<1>4. CASE NvdRefuses
  <2>1. PICK f \in lookup.finding : Apply(f, Unknown)
    BY <1>4 DEF NvdRefuses
  <2>2. f \in todo /\ phase = "asking"
    BY <1>4 DEF NvdRefuses, IInv, NvdInv
  <2> QED
    BY <2>1, <2>2, ApplyHonest
<1>5. CASE Start
  <2>1. todo = {}
    BY <1>5 DEF Start, IInv, PlanInv, Idle
  <2> QED
    BY <2>1
<1>6. CASE Match
  <2>1. findings = {} /\ todo \subseteq findings
    BY <1>6 DEF Match, IInv, FindingsInv
  <2> QED
    BY <2>1
<1>7. CASE todo' = todo
  BY <1>7
<1>8. ~End
  BY DEF End
<1> QED
  BY <1>1, <1>2, <1>3, <1>4, <1>5, <1>6, <1>7, <1>8
  DEF Next, Scan, Nvd, NvdGarbled, NvdOver, Rank, Nse, NseStart, NseExit, NseTimeout,
      NseReaped, NseOver, NseFrame, Web, Aside, Report, Open, Write, NoPdf, WriteFails, Return,
      Raise, Crash, Publish, Finished, vars, nvdVars

(* detector.py:406-461, 516-532: however often the cache was torn, and     *)
(* whatever the NVD answers, refuses or changes meanwhile, a finding's     *)
(* score becomes one the NVD has published for its CVE or stays, and no    *)
(* CVE is taken for unknown without asking.                                *)
THEOREM LookupsAreHonest == Spec => LookupsHonest
<1>1. ASSUME IInv, [Next]_vars
      PROVE  \A f \in todo \ todo' :
                phase' = "nvd" =>
                    \E score \in (ever[f.cve] \ {Unknown}) \cup {f.score} :
                        /\ [f EXCEPT !.score = score] \in findings'
                        /\ phase = "nvd" /\ f.cve \notin Keyword => score \in ever[f.cve]
  BY <1>1, HonestStep DEF Honest
<1>2. IInv /\ [Next]_vars =>
         [\A f \in todo \ todo' :
             phase' = "nvd" =>
                 \E score \in (ever[f.cve] \ {Unknown}) \cup {f.score} :
                     /\ [f EXCEPT !.score = score] \in findings'
                     /\ phase = "nvd" /\ f.cve \notin Keyword => score \in ever[f.cve]]_vars
  BY <1>1
<1> QED
  BY <1>2, Invariance, PTL DEF Spec, LookupsHonest

-----------------------------------------------------------------------------
LEMMA DisjointUnion ==
    ASSUME NEW S, IsFiniteSet(S), NEW T, IsFiniteSet(T), S \cap T = {}
    PROVE  /\ IsFiniteSet(S \cup T)
           /\ Cardinality(S \cup T) = Cardinality(S) + Cardinality(T)
           /\ Cardinality(S) \in Nat /\ Cardinality(T) \in Nat
<1>1. /\ IsFiniteSet(S \cup T)
      /\ Cardinality(S \cup T) = Cardinality(S) + Cardinality(T) - Cardinality(S \cap T)
  BY FS_Union
<1>2. Cardinality(S) \in Nat /\ Cardinality(T) \in Nat
  BY FS_CardinalityType
<1>3. Cardinality(S \cap T) = 0
  BY FS_EmptySet
<1> QED
  BY <1>1, <1>2, <1>3

(* Counted severity by severity, nothing is left out or counted twice.     *)
LEMMA CountBySeverity ==
    ASSUME NEW S, IsFiniteSet(S), NEW sev \in [S -> Severity]
    PROVE  /\ Cardinality(S) = Cardinality({x \in S : sev[x] = "critical"})
                                + Cardinality({x \in S : sev[x] = "high"})
                                + Cardinality({x \in S : sev[x] = "medium"})
                                + Cardinality({x \in S : sev[x] = "low"})
                                + Cardinality({x \in S : sev[x] = "info"})
           /\ \A s \in Severity : Cardinality({x \in S : sev[x] = s}) \in Nat
<1> DEFINE Of(s) == {x \in S : sev[x] = s}
           A == Of("critical")
           B == Of("high")
           C == Of("medium")
           D == Of("low")
           E == Of("info")
<1>1. \A s \in Severity : IsFiniteSet(Of(s)) /\ Cardinality(Of(s)) \in Nat
  <2> SUFFICES ASSUME NEW s \in Severity
               PROVE  IsFiniteSet(Of(s)) /\ Cardinality(Of(s)) \in Nat
    OBVIOUS
  <2>1. Of(s) \in SUBSET S
    OBVIOUS
  <2> HIDE DEF Of
  <2>2. IsFiniteSet(Of(s))
    BY <2>1, FS_Subset
  <2> QED
    BY <2>2, FS_CardinalityType
<1>2. IsFiniteSet(A) /\ IsFiniteSet(B) /\ IsFiniteSet(C) /\ IsFiniteSet(D) /\ IsFiniteSet(E)
  <2> HIDE DEF Of
  <2> QED
    BY <1>1 DEF Severity
<1>3. S = A \cup (B \cup (C \cup (D \cup E)))
  BY DEF Severity
<1>4. /\ A \cap (B \cup (C \cup (D \cup E))) = {} /\ B \cap (C \cup (D \cup E)) = {}
      /\ C \cap (D \cup E) = {} /\ D \cap E = {}
  OBVIOUS
<1> HIDE DEF A, B, C, D, E
<1>5. IsFiniteSet(D \cup E) /\ Cardinality(D \cup E) = Cardinality(D) + Cardinality(E)
  BY <1>2, <1>4, DisjointUnion
<1>6. /\ IsFiniteSet(C \cup (D \cup E))
      /\ Cardinality(C \cup (D \cup E)) = Cardinality(C) + Cardinality(D \cup E)
  BY <1>2, <1>4, <1>5, DisjointUnion
<1>7. /\ IsFiniteSet(B \cup (C \cup (D \cup E)))
      /\ Cardinality(B \cup (C \cup (D \cup E))) = Cardinality(B) + Cardinality(C \cup (D \cup E))
  BY <1>2, <1>4, <1>6, DisjointUnion
<1>8. Cardinality(S) = Cardinality(A) + Cardinality(B \cup (C \cup (D \cup E)))
  BY <1>2, <1>3, <1>4, <1>7, DisjointUnion
<1>9. /\ Cardinality(A) \in Nat /\ Cardinality(B) \in Nat /\ Cardinality(C) \in Nat
      /\ Cardinality(D) \in Nat /\ Cardinality(E) \in Nat
  BY <1>2, FS_CardinalityType
<1>10. Cardinality(S) = Cardinality(A) + Cardinality(B) + Cardinality(C) + Cardinality(D)
                         + Cardinality(E)
  BY <1>5, <1>6, <1>7, <1>8, <1>9
<1> QED
  BY <1>1, <1>10 DEF A, B, C, D, E

(* The findings of web pages: finitely many, each of a severity.           *)
LEMMA WebFindingsFacts ==
    ASSUME pages \in SUBSET WebPages
    PROVE  IsFiniteSet(WebFindings) /\ \A w \in WebFindings : w[3] \in Severity
<1> DEFINE OfPage(p) == {<<p.url, i, p.severities[i]>> : i \in DOMAIN p.severities}
           byPage == [p \in pages |-> OfPage(p)]
           All == {byPage[p] : p \in pages}
<1>1. \A p \in pages : p.severities \in Seq(Severity)
  BY AuditAssumption
<1>2. ASSUME NEW p \in pages
      PROVE  IsFiniteSet(OfPage(p)) /\ \A w \in OfPage(p) : w[3] \in Severity
  <2> DEFINE I == DOMAIN p.severities
             g == [i \in I |-> <<p.url, i, p.severities[i]>>]
  <2>1. I = 1 .. Len(p.severities) /\ Len(p.severities) \in Nat
    BY <1>1
  <2>2. \A i \in I : p.severities[i] \in Severity
    BY <1>1
  <2>3. OfPage(p) = {g[i] : i \in I}
    OBVIOUS
  <2>4. \A i \in I : g[i][3] = p.severities[i]
    OBVIOUS
  <2> HIDE DEF g, I, OfPage
  <2>5. IsFiniteSet(I)
    BY <2>1, FS_Interval
  <2>6. IsFiniteSet(OfPage(p))
    BY <2>3, <2>5, FiniteImage
  <2> QED
    BY <2>2, <2>3, <2>4, <2>6
<1>3. WebFindings = UNION All /\ \A p \in pages : byPage[p] = OfPage(p)
  BY DEF WebFindings
<1> HIDE DEF byPage, OfPage
<1>4. IsFiniteSet(All)
  <2>1. IsFiniteSet(pages)
    BY AuditAssumption, FS_Subset
  <2> QED
    BY <2>1, FiniteImage
<1>5. \A T \in All : IsFiniteSet(T) /\ \A w \in T : w[3] \in Severity
  BY <1>2, <1>3
<1> HIDE DEF All
<1>6. IsFiniteSet(UNION All)
  BY <1>4, <1>5, FS_UNION
<1> QED
  BY <1>3, <1>5, <1>6

LEMMA CountsFacts ==
    ASSUME IInv
    PROVE  /\ Cardinality(findings) + Cardinality(WebFindings)
                 = Counts["critical"] + Counts["high"] + Counts["medium"]
                    + Counts["low"] + Counts["info"]
           /\ \A s \in Severity : Counts[s] \in Nat
<1> DEFINE fs == [f \in findings |-> f.severity]
           ws == [w \in WebFindings |-> w[3]]
           F(s) == Cardinality({f \in findings : f.severity = s})
           W(s) == Cardinality({w \in WebFindings : w[3] = s})
<1>1. IsFiniteSet(findings) /\ fs \in [findings -> Severity]
  BY DEF IInv, FindingsInv, IsFinding
<1>2. IsFiniteSet(WebFindings) /\ ws \in [WebFindings -> Severity]
  BY WebFindingsFacts DEF IInv, PlanInv
<1>3. \A s \in Severity : /\ {f \in findings : fs[f] = s} = {f \in findings : f.severity = s}
                          /\ {w \in WebFindings : ws[w] = s} = {w \in WebFindings : w[3] = s}
  OBVIOUS
<1> HIDE DEF fs, ws
<1>4. /\ Cardinality(findings) = F("critical") + F("high") + F("medium") + F("low") + F("info")
      /\ \A s \in Severity : F(s) \in Nat
  <2>1. /\ Cardinality(findings) = Cardinality({f \in findings : fs[f] = "critical"})
                                     + Cardinality({f \in findings : fs[f] = "high"})
                                     + Cardinality({f \in findings : fs[f] = "medium"})
                                     + Cardinality({f \in findings : fs[f] = "low"})
                                     + Cardinality({f \in findings : fs[f] = "info"})
        /\ \A s \in Severity : Cardinality({f \in findings : fs[f] = s}) \in Nat
    BY <1>1, CountBySeverity
  <2>2. \A s \in Severity : Cardinality({f \in findings : fs[f] = s}) = F(s)
    BY <1>3
  <2> HIDE DEF F
  <2> QED
    BY <2>1, <2>2 DEF Severity
<1>5. /\ Cardinality(WebFindings) = W("critical") + W("high") + W("medium") + W("low") + W("info")
      /\ \A s \in Severity : W(s) \in Nat
  <2>1. /\ Cardinality(WebFindings) = Cardinality({w \in WebFindings : ws[w] = "critical"})
                                        + Cardinality({w \in WebFindings : ws[w] = "high"})
                                        + Cardinality({w \in WebFindings : ws[w] = "medium"})
                                        + Cardinality({w \in WebFindings : ws[w] = "low"})
                                        + Cardinality({w \in WebFindings : ws[w] = "info"})
        /\ \A s \in Severity : Cardinality({w \in WebFindings : ws[w] = s}) \in Nat
    BY <1>2, CountBySeverity
  <2>2. \A s \in Severity : Cardinality({w \in WebFindings : ws[w] = s}) = W(s)
    BY <1>3
  <2> HIDE DEF W
  <2> QED
    BY <2>1, <2>2 DEF Severity
<1>6. \A s \in Severity : Counts[s] = F(s) + W(s)
  BY DEF Counts
<1> HIDE DEF F, W
<1> QED
  BY <1>4, <1>5, <1>6 DEF Severity

LEMMA NothingToReport ==
    ASSUME NEW count, \A s \in Severity : count[s] \in Nat, RiskLevel(count) = "INFORMATIONAL"
    PROVE  count["high"] + count["medium"] = 0
<1>1. /\ count["critical"] \in Nat /\ count["high"] \in Nat /\ count["medium"] \in Nat
      /\ count["low"] \in Nat
  BY DEF Severity
<1>2. CASE count["critical"] = 0 /\ count["high"] = 0 /\ count["medium"] = 0
  BY <1>2
<1>3. CASE ~(count["critical"] = 0 /\ count["high"] = 0 /\ count["medium"] = 0)
  BY <1>1, <1>3 DEF RiskLevel
<1> QED
  BY <1>2, <1>3

(* Of some scores one is the highest. *)
LEMMA HighestFacts ==
    ASSUME NEW T, T \subseteq 0 .. 100, T # {}
    PROVE  Highest(T) \in T /\ \A t \in T : t <= Highest(T)
<1> DEFINE below == {100 - t : t \in T}
           less == OpToRel(<, Nat)
<1>0. \A t \in T : t \in 0 .. 100
  OBVIOUS
<1>1. below \subseteq Nat /\ below # {}
  <2>1. \A t \in T : 100 - t \in Nat
    BY <1>0
  <2> QED
    BY <2>1
<1>2. PICK x \in below : \A y \in below : <<y, x>> \notin less
  <2> HIDE DEF below, less
  <2>1. IsWellFoundedOn(less, Nat)
    BY NatLessThanWellFounded, Zenon DEF less
  <2> QED
    BY <1>1, <2>1, WFMin
<1>3. \A y \in below : ~(y < x)
  BY <1>1, <1>2 DEF OpToRel
<1>4. PICK m \in T : x = 100 - m
  OBVIOUS
<1>5. \A t \in T : t <= m
  <2> SUFFICES ASSUME NEW t \in T PROVE t <= m
    OBVIOUS
  <2>1. ~(100 - t < 100 - m)
    BY <1>3, <1>4
  <2>2. t \in 0 .. 100 /\ m \in 0 .. 100
    BY <1>0
  <2> QED
    BY <2>1, <2>2
<1> QED
  BY <1>5 DEF Highest

(* A row fits the findings and is the only one of its CVE.                 *)
Fits(row, rows) ==
    /\ row.cvss = Highest({g.score : g \in {h \in findings : h.cve = row.cve}})
    /\ row.cvss >= 90 => row.priority \in {"critical", "high"}
    /\ \A other \in rows : other.cve = row.cve => other = row

(* The rows of a ranking, for any EPSS and KEV data.                       *)
LEMMA RowsFacts ==
    ASSUME FindingsInv, NEW percentile \in {0, 95}, NEW known,
           NEW row \in Rows(percentile, known)
    PROVE  Fits(row, Rows(percentile, known))
<1> DEFINE Cvss(c) == Highest({f.score : f \in {g \in findings : g.cve = c}})
<1>1. \A c \in Cves : Cvss(c) \in Int
  <2> SUFFICES ASSUME NEW c \in Cves PROVE Cvss(c) \in Int
    OBVIOUS
  <2> DEFINE T == {f.score : f \in {g \in findings : g.cve = c}}
  <2>1. T \subseteq 0 .. 100 /\ T # {}
    BY DEF FindingsInv, IsFinding, Cves
  <2> HIDE DEF T
  <2>2. Highest(T) \in 0 .. 100
    BY <2>1, HighestFacts
  <2> QED
    BY <2>2 DEF T
<1>2. \A r \in Rows(percentile, known) : \E c \in Cves : r = Row(c, Cvss(c), percentile, known)
  BY DEF Rows
<1> HIDE DEF Cvss
<1>3. ASSUME NEW c, NEW cvss \in Int
      PROVE  /\ Row(c, cvss, percentile, known).cve = c
             /\ Row(c, cvss, percentile, known).cvss = cvss
             /\ cvss >= 90 => Row(c, cvss, percentile, known).priority \in {"critical", "high"}
  <2>1. \A kev \in BOOLEAN : cvss >= 90 => Priority(cvss, percentile, kev) \in {"critical", "high"}
    BY DEF Priority
  <2>2. (c \in known) \in BOOLEAN
    OBVIOUS
  <2>3. cvss >= 90 => Priority(cvss, percentile, c \in known) \in {"critical", "high"}
    BY <2>1, <2>2
  <2> QED
    BY <2>3 DEF Row
<1>4. \A r \in Rows(percentile, known) :
         /\ r = Row(r.cve, Cvss(r.cve), percentile, known)
         /\ r.cvss = Cvss(r.cve)
         /\ r.cvss >= 90 => r.priority \in {"critical", "high"}
  BY <1>1, <1>2, <1>3
<1>5. row.cvss = Cvss(row.cve) /\ (row.cvss >= 90 => row.priority \in {"critical", "high"})
  BY <1>4
<1>6. \A other \in Rows(percentile, known) : other.cve = row.cve => other = row
  BY <1>4
<1> QED
  BY <1>5, <1>6 DEF Cvss, Fits

(* generator.py:107-221 and cli.py:646-733: the report of any command, on  *)
(* any machines and rules: every finding counted once by its severity, the *)
(* matcher's findings on its hosts and no others, each CVE ranked once by  *)
(* the highest score shown for it.                                         *)
THEOREM ReportsAgree == Spec => []ReportAgrees
<1>1. ASSUME IInv, phase = "writing"
      PROVE  /\ \A g \in findings : \E e \in HostFindings(g.host, Machines[g.host]) : Same(g, e)
             /\ findings # {} =>
                   \A h \in hosts : \A e \in HostFindings(h, Machines[h]) :
                       \E g \in findings : Same(g, e)
  <2>1. PICK i \in DOMAIN Order : Order[i] = "report"
    BY <1>1 DEF IInv, PlanInv, Place
  <2>2. config.command \in Command
    BY <1>1, Commanded DEF IInv, PlanInv
  <2>3. DOMAIN Order = 1 .. Len(Order)
    <3>1. Order \in Seq(Names)
      BY <2>2, OrderFacts DEF Order
    <3> QED
      BY <3>1
  <2>4. config.command \notin {"cve", "enrich"}
    BY <2>1, <2>2, <2>3, OrderFacts DEF Order
  <2> QED
    BY <1>1, <2>4 DEF IInv, FindingsInv
<1>2. ASSUME IInv, NEW row \in ranks
      PROVE  Fits(row, ranks)
  <2>1. PICK percentile \in {0, 95}, known \in SUBSET Cves : ranks = Rows(percentile, known)
    BY <1>2 DEF IInv, RankInv
  <2>2. FindingsInv /\ row \in Rows(percentile, known)
    BY <1>2, <2>1 DEF IInv
  <2> QED
    BY <2>1, <2>2, RowsFacts
<1>3. ASSUME IInv, phase = "writing" PROVE ReportAgrees
  <2> DEFINE r == BuildReport
  <2>1. /\ r.findings = findings /\ r.hosts = hosts /\ r.ranks \subseteq ranks
        /\ r.summary = Counts /\ r.level = RiskLevel(Counts)
        /\ r.total = Cardinality(findings) + Cardinality(WebFindings)
    BY DEF BuildReport
  <2> HIDE DEF r
  <2>2. r.total = r.summary["critical"] + r.summary["high"] + r.summary["medium"]
                    + r.summary["low"] + r.summary["info"]
    BY <1>3, <2>1, CountsFacts
  <2>3. r.level = "INFORMATIONAL" => r.summary["high"] + r.summary["medium"] = 0
    BY <1>3, <2>1, CountsFacts, NothingToReport
  <2>4. \A g \in r.findings : \E e \in HostFindings(g.host, Machines[g.host]) :
           e = [g EXCEPT !.score = e.score]
    BY <1>1, <1>3, <2>1 DEF Same
  <2>5. r.findings # {} =>
           \A h \in r.hosts : \A e \in HostFindings(h, Machines[h]) :
               \E g \in r.findings : e = [g EXCEPT !.score = e.score]
    BY <1>1, <1>3, <2>1 DEF Same
  <2>6. \A row \in r.ranks :
           /\ row.cvss = Highest({g.score : g \in {h \in r.findings : h.cve = row.cve}})
           /\ row.cvss >= 90 => row.priority \in {"critical", "high"}
           /\ \A other \in r.ranks : other.cve = row.cve => other = row
    BY <1>2, <1>3, <2>1 DEF Fits
  <2> QED
    BY <2>2, <2>3, <2>4, <2>5, <2>6 DEF ReportAgrees, r
<1>4. IInv => ReportAgrees
  BY <1>3 DEF ReportAgrees
<1> QED
  BY <1>4, Invariance, PTL

-----------------------------------------------------------------------------
(***************************************************************************)
(* The other data on disk that a ranking rests on: the KEV catalogue, for  *)
(* any number of processes that load it and any MAX_AGE_SECONDS.  That a   *)
(* load returns a current edition is inductive only with what is in the    *)
(* file: as long as it is not empty, one of its blocks was current when    *)
(* the file was written last (FileInv), however writers tore or mixed it,  *)
(* and a document that decodes has all blocks alike.                       *)
(***************************************************************************)
CONSTANTS Proc, Foreign, MaxAge, Loads, Horizon

VARIABLES clock, published, edition, exists, content, mtime, pc, payload, position, loaded, loads

Kev == INSTANCE KevCatalog WITH now <- clock, written <- position

(* A feed is no older than the edition at the start of hour t. *)
Recent(doc, t) == Kev!IsFeed(doc) => doc[2] >= published[t + 1]

Held == {Kev!Feed(e) : e \in 1 .. edition} \cup {Kev!None, <<"empty", 0>>, <<"raised", 0>>}

KevTypes ==
    /\ clock \in Nat /\ edition \in Nat \ {0} /\ exists \in BOOLEAN /\ mtime \in 0 .. clock
    /\ published \in Seq(Nat) /\ Len(published) = clock + 1
    /\ content \in Seq(Kev!Known \cup {Kev!Hole})
    /\ ~exists => content = <<>>
    /\ pc \in [Proc -> {"idle", "read", "download", "open", "write", "fallback"}]
    /\ payload \in [Proc -> Kev!Known \cup {Kev!None}]
    /\ position \in [Proc -> Nat]
    /\ \A p \in Proc : pc[p] = "write" => position[p] \in 0 .. Kev!Blocks(payload[p]) - 1
    /\ loaded \in [Proc -> Held]
    /\ loads \in 0 .. Loads

(* Editions only get newer. *)
PublishedInv ==
    /\ \A t, u \in 0 .. clock : t <= u => published[t + 1] <= published[u + 1]
    /\ published[clock + 1] <= edition

(* A load takes no time: what it downloaded or found fresh still is.       *)
LoadInv ==
    /\ \A p \in Proc : payload[p] # Kev!None <=> pc[p] \in {"open", "write"}
    /\ \A p \in Proc : Recent(payload[p], clock)
    /\ \A p \in Proc : pc[p] # "idle" => loaded[p] = Kev!None
    /\ \A p \in Proc : pc[p] = "read" => exists /\ clock - mtime < MaxAge
    /\ \A p \in Proc : pc[p] = "write" => exists

(* Some block was current when the file was written last. *)
FileInv ==
    content # <<>> =>
        \E i \in DOMAIN content : content[i] # Kev!Hole /\ Recent(content[i], mtime)

KevInv == KevTypes /\ PublishedInv /\ LoadInv /\ FileInv

(* Before the first load. *)
LEMMA KevInit ==
    ASSUME Kev!KevCatalogAssumption, Kev!Init
    PROVE  KevInv
<1>1. /\ clock = 0 /\ published = <<1>> /\ edition = 1
      /\ exists = FALSE /\ content = <<>> /\ mtime = 0
      /\ pc = [p \in Proc |-> "idle"] /\ payload = [p \in Proc |-> Kev!None]
      /\ position = [p \in Proc |-> 0]
      /\ loaded = [p \in Proc |-> Kev!None] /\ loads = 0
  BY DEF Kev!Init
<1>2. published \in Seq(Nat) /\ Len(published) = 1 /\ published[1] = 1 /\ Len(published) = clock + 1
  BY <1>1
<1>3. KevTypes
  <2>1. Loads \in Nat
    BY DEF Kev!KevCatalogAssumption
  <2>2. content \in Seq(Kev!Known \cup {Kev!Hole})
    BY <1>1
  <2>3. payload \in [Proc -> Kev!Known \cup {Kev!None}] /\ loaded \in [Proc -> Held]
    BY <1>1 DEF Held
  <2>4. 0 \in 0 .. Loads /\ 1 \in Nat \ {0} /\ 0 \in 0 .. 0
    BY <2>1
  <2>5. position \in [Proc -> Nat] /\ \A p \in Proc : pc[p] # "write"
    BY <1>1
  <2>6. pc \in [Proc -> {"idle", "read", "download", "open", "write", "fallback"}]
    BY <1>1
  <2>7. clock \in Nat /\ edition \in Nat \ {0} /\ exists \in BOOLEAN /\ mtime \in 0 .. clock
        /\ loads \in 0 .. Loads
    BY <1>1, <2>4
  <2> QED
    BY <1>1, <1>2, <2>2, <2>3, <2>5, <2>6, <2>7, Zenon DEF KevTypes
<1>4. PublishedInv
  BY <1>1, <1>2 DEF PublishedInv
<1>5. LoadInv /\ FileInv
  BY <1>1 DEF LoadInv, FileInv, Recent, Kev!IsFeed, Kev!None
<1> QED
  BY <1>3, <1>4, <1>5 DEF KevInv

(* What a load makes of a document. *)
LEMMA DocFacts ==
    ASSUME Kev!KevCatalogAssumption, KevTypes, NEW doc \in Kev!Known \cup {Kev!None}
    PROVE  /\ Kev!Outcome(doc) \in Held
           /\ Kev!IsFeed(Kev!Outcome(doc)) => Kev!Outcome(doc) = doc
           /\ Kev!IsFeed(doc) => Kev!Outcome(doc) = doc
           /\ Kev!Blocks(doc) \in {1, 2}
<1>1. CASE \E e \in 1 .. edition : doc = Kev!Feed(e)
  BY <1>1 DEF Kev!Outcome, Kev!Feed, Kev!IsFeed, Held, Kev!Blocks
<1>2. CASE doc \in Kev!OtherJSON \cup {Kev!None}
  BY <1>2 DEF Kev!Outcome, Kev!OtherJSON, Kev!None, Kev!IsFeed, Held, Kev!Blocks
<1> QED
  BY <1>1, <1>2 DEF Kev!KevCatalogAssumption, Kev!Known

(* A load ends with what there is; nothing but its process has changed.    *)
LEMMA FinishLoad ==
    ASSUME Kev!KevCatalogAssumption, KevTypes, LoadInv, NEW p \in Proc,
           NEW doc \in Kev!Known \cup {Kev!None}, Kev!Finish(p, doc),
           UNCHANGED <<clock, published, edition>>,
           \A q \in Proc : pc[q] = "read" => exists' /\ clock - mtime' < MaxAge,
           \A q \in Proc : pc[q] = "write" => exists'
    PROVE  LoadInv' /\ (KevTypes' <=> /\ exists' \in BOOLEAN /\ mtime' \in 0 .. clock
                                      /\ content' \in Seq(Kev!Known \cup {Kev!Hole})
                                      /\ ~exists' => content' = <<>>)
<1>1. /\ pc' = [pc EXCEPT ![p] = "idle"] /\ payload' = [payload EXCEPT ![p] = Kev!None]
      /\ loaded' = [loaded EXCEPT ![p] = Kev!Outcome(doc)] /\ position' = position /\ loads' = loads
  BY DEF Kev!Finish, Kev!Goto
<1>2. Kev!Outcome(doc) \in Held
  BY DocFacts
<1>3. Kev!Known' = Kev!Known /\ Held' = Held
  BY DEF Kev!Known, Held
<1>4. LoadInv'
  BY <1>1 DEF LoadInv, KevTypes, Recent, Kev!IsFeed, Kev!None
<1>5. /\ pc' \in [Proc -> {"idle", "read", "download", "open", "write", "fallback"}]
      /\ payload' \in [Proc -> Kev!Known \cup {Kev!None}]
      /\ loaded' \in [Proc -> Held]
  BY <1>1, <1>2 DEF KevTypes
<1>6. \A q \in Proc : pc'[q] = "write" => position'[q] \in 0 .. Kev!Blocks(payload'[q]) - 1
  BY <1>1 DEF KevTypes
<1> QED
  BY <1>1, <1>3, <1>4, <1>5, <1>6 DEF KevTypes

(* A step of a process that leaves the file alone.                         *)
LEMMA KeepFile ==
    ASSUME KevInv, UNCHANGED <<clock, published, edition, exists, content, mtime>>
    PROVE  PublishedInv' /\ FileInv'
BY DEF KevInv, PublishedInv, FileInv, Recent, Kev!IsFeed, Kev!Hole

(* A document read from the file is one, and as recent as the file. *)
LEMMA DecodeFacts ==
    ASSUME KevInv, NEW doc \in Kev!Decode
    PROVE  doc \in Kev!Known /\ Recent(doc, mtime)
<1>1. /\ doc \in {content[i] : i \in DOMAIN content} \ {Kev!Hole}
      /\ content = [i \in 1 .. Kev!Blocks(doc) |-> doc]
  BY DEF Kev!Decode
<1>2. content \in Seq(Kev!Known \cup {Kev!Hole})
  BY DEF KevInv, KevTypes
<1>3. doc \in Kev!Known /\ content # <<>>
  <2>1. PICK i \in DOMAIN content : doc = content[i] /\ doc # Kev!Hole
    BY <1>1
  <2> QED
    BY <1>2, <2>1
<1>4. \A i \in DOMAIN content : content[i] = doc
  BY <1>1
<1> QED
  BY <1>3, <1>4 DEF KevInv, FileInv

(* The block is there after it was written. *)
LEMMA OverwriteFacts ==
    ASSUME NEW S, content \in Seq(S), NEW doc \in S, Kev!Hole \in S, NEW n \in Nat \ {0}
    PROVE  /\ Kev!Overwrite(n, doc) \in Seq(S)
           /\ n \in DOMAIN Kev!Overwrite(n, doc) /\ Kev!Overwrite(n, doc)[n] = doc
<1> DEFINE m == IF n > Len(content) THEN n ELSE Len(content)
<1>1. m \in Nat /\ n \in 1 .. m
  OBVIOUS
<1>2. Kev!Overwrite(n, doc) = [j \in 1 .. m |->
          IF j = n THEN doc ELSE IF j <= Len(content) THEN content[j] ELSE Kev!Hole]
  BY DEF Kev!Overwrite
<1> HIDE DEF m
<1>3. Kev!Overwrite(n, doc) \in [1 .. m -> S]
  BY <1>1, <1>2
<1> QED
  BY <1>1, <1>2, <1>3

(* Every step. *)
LEMMA KevNext ==
    ASSUME Kev!KevCatalogAssumption, KevInv, [Kev!Next]_Kev!vars
    PROVE  KevInv'
<1>0. /\ KevTypes /\ PublishedInv /\ LoadInv /\ FileInv
      /\ MaxAge \in Nat \ {0} /\ Foreign \subseteq Kev!OtherJSON /\ Loads \in Nat
      /\ clock \in Nat /\ mtime \in 0 .. clock
  BY DEF KevInv, KevTypes, Kev!KevCatalogAssumption
<1>1. ASSUME NEW p \in Proc, Kev!Start(p) PROVE KevInv'
  <2>1. /\ pc[p] = "idle" /\ loaded' = [loaded EXCEPT ![p] = Kev!None] /\ loads' \in 0 .. Loads
        /\ \/ Kev!Fresh /\ pc' = [pc EXCEPT ![p] = "read"]
           \/ pc' = [pc EXCEPT ![p] = "download"]
        /\ UNCHANGED <<clock, published, edition, exists, content, mtime, payload, position>>
    BY <1>0, <1>1 DEF Kev!Start, Kev!Goto, Kev!world, Kev!file, KevTypes
  <2>2. Kev!Known' = Kev!Known /\ Held' = Held /\ Kev!None \in Held
    BY <2>1 DEF Kev!Known, Held
  <2>3. KevTypes'
    BY <1>0, <2>1, <2>2 DEF KevTypes
  <2>4. LoadInv'
    BY <1>0, <2>1 DEF LoadInv, KevTypes, Recent, Kev!IsFeed, Kev!Fresh
  <2> QED
    BY <2>1, <2>3, <2>4, KeepFile DEF KevInv
<1>2. ASSUME NEW p \in Proc, Kev!ReadFresh(p) \/ Kev!Fallback(p) PROVE KevInv'
  <2>1. UNCHANGED <<clock, published, edition, exists, content, mtime>>
    BY <1>2 DEF Kev!ReadFresh, Kev!Fallback, Kev!world, Kev!file
  <2>2. CASE \E doc \in Kev!Decode \cup {Kev!None} : Kev!Finish(p, doc)
    <3>1. PICK doc \in Kev!Known \cup {Kev!None} : Kev!Finish(p, doc)
      BY <2>2, DecodeFacts
    <3>2. LoadInv' /\ KevTypes'
      BY <1>0, <2>1, <3>1, FinishLoad DEF LoadInv, KevTypes
    <3> QED
      BY <2>1, <3>2, KeepFile DEF KevInv
  <2>3. CASE /\ pc[p] = "read" /\ Kev!Goto(p, "download")
             /\ UNCHANGED <<payload, position, loaded, loads>>
    <3>1. Kev!Known' = Kev!Known /\ Held' = Held
      BY <2>1 DEF Kev!Known, Held
    <3>2. KevTypes'
      BY <1>0, <2>1, <2>3, <3>1 DEF KevTypes, Kev!Goto
    <3>3. LoadInv'
      BY <1>0, <2>1, <2>3 DEF LoadInv, KevTypes, Recent, Kev!IsFeed, Kev!Goto
    <3> QED
      BY <2>1, <3>2, <3>3, KeepFile DEF KevInv
  <2> QED
    BY <1>2, <2>2, <2>3 DEF Kev!ReadFresh, Kev!Fallback
<1>3. ASSUME NEW p \in Proc, Kev!Download(p) PROVE KevInv'
  <2>1. /\ pc[p] = "download"
        /\ UNCHANGED <<clock, published, edition, exists, content, mtime, position, loaded, loads>>
    BY <1>3 DEF Kev!Download, Kev!world, Kev!file
  <2>2. Kev!Known' = Kev!Known /\ Held' = Held
    BY <2>1 DEF Kev!Known, Held
  <2>3. CASE pc' = [pc EXCEPT ![p] = "fallback"] /\ payload' = payload
    <3>1. KevTypes' /\ LoadInv'
      BY <1>0, <2>1, <2>2, <2>3 DEF KevTypes, LoadInv, Recent, Kev!IsFeed
    <3> QED
      BY <2>1, <3>1, KeepFile DEF KevInv
  <2>4. ASSUME NEW doc \in {Kev!Feed(edition)} \cup Foreign, pc' = [pc EXCEPT ![p] = "open"],
               payload' = [payload EXCEPT ![p] = doc]
        PROVE  KevInv'
    <3>1. doc \in Kev!Known
      BY <1>0, <2>4 DEF KevTypes, Kev!Known
    <3>2. KevTypes'
      BY <1>0, <2>1, <2>2, <2>4, <3>1 DEF KevTypes
    <3>3. Recent(doc, clock)
      <4>1. CASE doc = Kev!Feed(edition)
        BY <1>0, <4>1 DEF Recent, Kev!Feed, PublishedInv, KevTypes
      <4>2. CASE doc \in Foreign
        BY <1>0, <4>2 DEF Recent, Kev!OtherJSON, Kev!IsFeed
      <4> QED
        BY <2>4, <4>1, <4>2
    <3>4. doc # Kev!None
      BY <1>0, <2>4 DEF Kev!OtherJSON, Kev!None, Kev!Feed
    <3>5. LoadInv'
      BY <1>0, <2>1, <2>4, <3>3, <3>4 DEF KevTypes, LoadInv, Recent, Kev!IsFeed
    <3> QED
      BY <2>1, <3>2, <3>5, KeepFile DEF KevInv
  <2> QED
    BY <1>3, <2>3, <2>4 DEF Kev!Download, Kev!Goto
<1>4. ASSUME NEW p \in Proc, Kev!Open(p) PROVE KevInv'
  <2>1. /\ pc[p] = "open" /\ pc' = [pc EXCEPT ![p] = "write"]
        /\ position' = [position EXCEPT ![p] = 0]
        /\ exists' = TRUE /\ content' = <<>> /\ mtime' = clock
        /\ UNCHANGED <<clock, published, edition, payload, loaded, loads>>
    BY <1>4 DEF Kev!Open, Kev!Goto, Kev!world
  <2>2. Kev!Known' = Kev!Known /\ Held' = Held /\ Kev!Blocks(payload[p]) \in {1, 2}
    BY <1>0, <2>1, DocFacts DEF Kev!Known, Held, KevTypes
  <2>3. content' \in Seq(Kev!Known \cup {Kev!Hole})
    BY <2>1
  <2>4. KevTypes'
    BY <1>0, <2>1, <2>2, <2>3 DEF KevTypes, Kev!Blocks
  <2>5. LoadInv'
    BY <1>0, <2>1 DEF LoadInv, KevTypes, Recent, Kev!IsFeed
  <2>6. PublishedInv' /\ FileInv'
    BY <1>0, <2>1 DEF PublishedInv, FileInv
  <2> QED
    BY <2>4, <2>5, <2>6 DEF KevInv
<1>5. ASSUME NEW p \in Proc, Kev!Write(p) PROVE KevInv'
  <2> DEFINE n == position[p] + 1
  <2>1. /\ pc[p] = "write" /\ mtime' = clock
        /\ content' = Kev!Overwrite(n, payload[p])
        /\ UNCHANGED <<clock, published, edition, exists>>
    BY <1>5 DEF Kev!Write, Kev!world
  <2>2. n \in Nat \ {0} /\ n <= Kev!Blocks(payload[p]) /\ Kev!Blocks(payload[p]) \in {1, 2}
        /\ payload[p] \in Kev!Known \cup {Kev!None} /\ exists \in BOOLEAN
    BY <1>0, <2>1, DocFacts DEF KevTypes
  <2> HIDE DEF n
  <2>3. /\ payload[p] \in Kev!Known /\ payload[p] # Kev!Hole /\ Recent(payload[p], clock)
        /\ \A q \in Proc : pc[q] = "read" => exists
    BY <1>0, <2>1, <2>2
       DEF LoadInv, Kev!Known, Kev!Feed, Kev!Hole, Kev!None, Kev!OtherJSON
  <2>4. /\ content' \in Seq(Kev!Known \cup {Kev!Hole})
        /\ n \in DOMAIN content' /\ content'[n] = payload[p]
    <3> DEFINE S == Kev!Known \cup {Kev!Hole}
    <3>1. content \in Seq(S) /\ payload[p] \in S /\ Kev!Hole \in S
      BY <1>0, <2>3 DEF KevTypes
    <3> HIDE DEF S
    <3>2. /\ Kev!Overwrite(n, payload[p]) \in Seq(S)
          /\ n \in DOMAIN Kev!Overwrite(n, payload[p])
          /\ Kev!Overwrite(n, payload[p])[n] = payload[p]
      BY <2>2, <3>1, OverwriteFacts
    <3> QED
      BY <2>1, <3>2 DEF S
  <2>5. FileInv' /\ PublishedInv'
    BY <1>0, <2>1, <2>3, <2>4 DEF FileInv, PublishedInv, Recent, Kev!IsFeed, Kev!Hole
  <2>6. clock' - mtime' < MaxAge /\ mtime' \in 0 .. clock
    BY <1>0, <2>1
  <2>7. exists = TRUE
    BY <1>0, <2>1, <2>2 DEF LoadInv
  <2>8. CASE Kev!Finish(p, payload[p])
    <3>1. LoadInv' /\ KevTypes'
      BY <1>0, <2>1, <2>2, <2>3, <2>4, <2>6, <2>7, <2>8, FinishLoad
    <3> QED
      BY <2>5, <3>1 DEF KevInv
  <2>9. CASE /\ n # Kev!Blocks(payload[p]) /\ position' = [position EXCEPT ![p] = n]
             /\ UNCHANGED <<pc, payload, loaded, loads>>
    <3>1. Kev!Known' = Kev!Known /\ Held' = Held
      BY <2>1 DEF Kev!Known, Held
    <3>2. KevTypes'
      BY <1>0, <2>1, <2>2, <2>4, <2>6, <2>7, <2>9, <3>1 DEF KevTypes, Kev!Blocks
    <3>3. LoadInv'
      BY <1>0, <2>1, <2>6, <2>9 DEF LoadInv, Recent, Kev!IsFeed
    <3> QED
      BY <2>5, <3>2, <3>3 DEF KevInv
  <2> QED
    BY <1>5, <2>8, <2>9 DEF Kev!Write, n
<1>6. ASSUME NEW p \in Proc, Kev!WriteError(p) PROVE KevInv'
  <2>1. /\ Kev!Finish(p, payload[p]) /\ payload[p] \in Kev!Known \cup {Kev!None}
        /\ UNCHANGED <<clock, published, edition, exists, content, mtime>>
    BY <1>0, <1>6 DEF Kev!WriteError, Kev!world, Kev!file, KevTypes
  <2>2. LoadInv' /\ KevTypes'
    BY <1>0, <2>1, FinishLoad DEF LoadInv, KevTypes
  <2> QED
    BY <2>1, <2>2, KeepFile DEF KevInv
<1>7. ASSUME NEW p \in Proc, Kev!Crash(p) PROVE KevInv'
  <2>1. /\ pc' = [pc EXCEPT ![p] = "idle"] /\ payload' = [payload EXCEPT ![p] = Kev!None]
        /\ UNCHANGED <<clock, published, edition, exists, content, mtime, position, loaded, loads>>
    BY <1>7 DEF Kev!Crash, Kev!Goto, Kev!world, Kev!file
  <2>2. Kev!Known' = Kev!Known /\ Held' = Held
    BY <2>1 DEF Kev!Known, Held
  <2>3. KevTypes'
    BY <1>0, <2>1, <2>2 DEF KevTypes
  <2>4. LoadInv'
    BY <1>0, <2>1 DEF LoadInv, KevTypes, Recent, Kev!IsFeed, Kev!None
  <2> QED
    BY <2>1, <2>3, <2>4, KeepFile DEF KevInv
<1>8. CASE Kev!Publish
  <2>1. /\ edition' = edition + 1
        /\ UNCHANGED <<clock, published, exists, content, mtime, pc, payload, position, loaded,
                       loads>>
    BY <1>8 DEF Kev!Publish, Kev!file
  <2>2. Kev!Known \subseteq Kev!Known' /\ Held \subseteq Held'
    BY <1>0, <2>1 DEF Kev!Known, Held, KevTypes
  <2>3. content' \in Seq(Kev!Known' \cup {Kev!Hole})
    BY <1>0, <2>1, <2>2 DEF KevTypes
  <2>4. payload' \in [Proc -> Kev!Known' \cup {Kev!None}] /\ loaded' \in [Proc -> Held']
    BY <1>0, <2>1, <2>2 DEF KevTypes
  <2>5. KevTypes'
    BY <1>0, <2>1, <2>3, <2>4 DEF KevTypes
  <2>6. PublishedInv' /\ LoadInv' /\ FileInv'
    BY <1>0, <2>1 DEF PublishedInv, LoadInv, FileInv, Recent, Kev!IsFeed, Kev!Hole, KevTypes
  <2> QED
    BY <2>5, <2>6 DEF KevInv
<1>9. CASE Kev!Tick
  <2>1. /\ \A p \in Proc : pc[p] = "idle"
        /\ clock' = clock + 1 /\ published' = Append(published, edition)
        /\ UNCHANGED <<edition, exists, content, mtime, pc, payload, position, loaded, loads>>
    BY <1>9 DEF Kev!Tick, Kev!file
  <2>2. Kev!Known' = Kev!Known /\ Held' = Held
    BY <2>1 DEF Kev!Known, Held
  <2>3. /\ published' \in Seq(Nat) /\ Len(published') = clock' + 1
        /\ \A t \in 0 .. clock : published'[t + 1] = published[t + 1]
        /\ published'[clock' + 1] = edition
    BY <1>0, <2>1 DEF KevTypes
  <2>4. KevTypes'
    BY <1>0, <2>1, <2>2, <2>3 DEF KevTypes
  <2>5. PublishedInv'
    <3>1. /\ \A t, u \in 0 .. clock : t <= u => published[t + 1] <= published[u + 1]
          /\ published[clock + 1] <= edition /\ edition \in Nat
      BY <1>0 DEF PublishedInv, KevTypes
    <3>2. ASSUME NEW t \in 0 .. clock PROVE published[t + 1] <= edition
      <4>1. t \in Nat /\ t <= clock /\ clock \in 0 .. clock
        BY <1>0
      <4>2. published[t + 1] <= published[clock + 1]
        BY <3>1, <4>1
      <4>3. published[t + 1] \in Nat /\ published[clock + 1] \in Nat
        BY <1>0, <4>1 DEF KevTypes
      <4> QED
        BY <3>1, <4>2, <4>3
    <3>3. ASSUME NEW t \in 0 .. clock', NEW u \in 0 .. clock', t <= u
          PROVE  published'[t + 1] <= published'[u + 1]
      <4>1. CASE u \in 0 .. clock
        <5>1. t \in 0 .. clock
          BY <1>0, <3>3, <4>1
        <5> QED
          BY <2>3, <3>1, <3>3, <4>1, <5>1
      <4>2. CASE u = clock' /\ t \in 0 .. clock
        <5>1. published'[u + 1] = edition /\ published'[t + 1] = published[t + 1]
          BY <2>3, <4>2
        <5> QED
          BY <3>2, <4>2, <5>1
      <4>3. CASE u = clock' /\ t = clock'
        <5>1. published'[u + 1] = edition /\ published'[t + 1] = edition
          BY <2>3, <4>3
        <5> QED
          BY <3>1, <5>1
      <4>4. \/ u \in 0 .. clock
            \/ u = clock' /\ (t \in 0 .. clock \/ t = clock')
        <5>1. clock \in Nat /\ clock' = clock + 1
          BY <1>0, <2>1
        <5> QED
          BY <3>3, <5>1
      <4> QED
        BY <4>1, <4>2, <4>3, <4>4
    <3> QED
      BY <2>3, <3>1, <3>3, <2>1 DEF PublishedInv
  <2>6. LoadInv'
    <3>1. \A p \in Proc : pc'[p] = "idle" /\ payload'[p] = Kev!None
      BY <1>0, <2>1 DEF LoadInv
    <3>2. ~Kev!IsFeed(Kev!None)
      BY DEF Kev!IsFeed, Kev!None
    <3> QED
      BY <3>1, <3>2 DEF LoadInv, Recent, Kev!IsFeed, Kev!None
  <2>7. FileInv'
    BY <1>0, <2>1, <2>3 DEF FileInv, Recent, Kev!IsFeed, Kev!Hole
  <2> QED
    BY <2>4, <2>5, <2>6, <2>7 DEF KevInv
<1>10. CASE UNCHANGED Kev!vars
  <2>1. UNCHANGED <<clock, published, edition, exists, content, mtime, pc, payload, position,
                    loaded, loads>>
    BY <1>10 DEF Kev!vars, Kev!world, Kev!file
  <2>2. Kev!Known' = Kev!Known /\ Held' = Held
    BY <2>1 DEF Kev!Known, Held
  <2> QED
    BY <1>0, <2>1, <2>2 DEF KevInv, KevTypes, PublishedInv, LoadInv, FileInv, Recent
<1> QED
  BY <1>1, <1>2, <1>3, <1>4, <1>5, <1>6, <1>7, <1>8, <1>9, <1>10 DEF Kev!Next, Kev!Step

LEMMA KevInvariance ==
    ASSUME Kev!KevCatalogAssumption
    PROVE  Kev!Spec => []KevInv
<1>1. Kev!Init => KevInv
  BY KevInit
<1>2. KevInv /\ [Kev!Next]_Kev!vars => KevInv'
  BY KevNext
<1> QED
  BY <1>1, <1>2, PTL DEF Kev!Spec

(* The types of KevCatalog, its file and its processes.                    *)
THEOREM CatalogTypes ==
    ASSUME Kev!KevCatalogAssumption
    PROVE  Kev!Spec => []Kev!TypeOK
<1>1. KevInv => Kev!TypeOK
  <2> SUFFICES ASSUME KevInv PROVE Kev!TypeOK
    OBVIOUS
  <2>1. KevTypes
    BY DEF KevInv
  <2>2. \A i \in DOMAIN content : content[i] \in Kev!Known \cup {Kev!Hole}
    BY <2>1 DEF KevTypes
  <2> QED
    BY <2>1, <2>2 DEF KevTypes, Held, Kev!TypeOK
<1> QED
  BY <1>1, KevInvariance, PTL

(* enrich.py:181-187: a load whose download brought the feed returns that  *)
(* edition, whatever becomes of the file meanwhile.                        *)
THEOREM DownloadsCount ==
    ASSUME Kev!KevCatalogAssumption
    PROVE  Kev!Spec => Kev!DownloadCounts
<1>1. KevInv /\ [Kev!Next]_Kev!vars =>
          [\A p \in Proc : Kev!IsFeed(payload[p]) /\ pc'[p] = "idle" =>
              loaded'[p] \in {payload[p], Kev!None}]_Kev!vars
  <2> SUFFICES ASSUME KevInv, Kev!Next, NEW p \in Proc, Kev!IsFeed(payload[p]), pc'[p] = "idle"
               PROVE  loaded'[p] \in {payload[p], Kev!None}
    BY DEF Kev!vars
  <2>1. /\ pc[p] \in {"open", "write"} /\ loaded[p] = Kev!None
        /\ payload[p] \in Kev!Known \cup {Kev!None}
        /\ loaded \in [Proc -> Held]
        /\ pc \in [Proc -> {"idle", "read", "download", "open", "write", "fallback"}]
    <3>1. payload[p] # Kev!None
      BY DEF Kev!IsFeed, Kev!None
    <3>2. pc[p] \in {"open", "write"}
      BY <3>1 DEF KevInv, LoadInv
    <3> QED
      BY <3>2 DEF KevInv, LoadInv, KevTypes
  <2>2. Kev!Outcome(payload[p]) = payload[p]
    BY <2>1, DocFacts DEF KevInv
  <2>3. CASE \E q \in Proc \ {p} : Kev!Step(q) \/ Kev!Crash(q)
    BY <2>1, <2>3
    DEF Kev!Step, Kev!Start, Kev!ReadFresh, Kev!Download, Kev!Open, Kev!Write, Kev!WriteError,
        Kev!Fallback, Kev!Crash, Kev!Finish, Kev!Goto
  <2>4. CASE Kev!Step(p) \/ Kev!Crash(p)
    BY <2>1, <2>2, <2>4
    DEF Kev!Step, Kev!Start, Kev!ReadFresh, Kev!Download, Kev!Open, Kev!Write, Kev!WriteError,
        Kev!Fallback, Kev!Crash, Kev!Finish, Kev!Goto
  <2>5. CASE Kev!Publish \/ Kev!Tick
    BY <2>1, <2>5 DEF Kev!Publish, Kev!Tick
  <2> QED
    BY <2>3, <2>4, <2>5 DEF Kev!Next
<1> QED
  BY <1>1, KevInvariance, PTL DEF Kev!Spec, Kev!DownloadCounts

(* enrich.py:147, 178: a load that does not have to fall back returns no   *)
(* edition that was replaced MAX_AGE_SECONDS ago or earlier, for any       *)
(* interleaving of loads, torn and mixed writes, crashes and other JSON.   *)
THEOREM CatalogIsCurrent ==
    ASSUME Kev!KevCatalogAssumption
    PROVE  Kev!Spec => Kev!Current
<1> DEFINE oldest == IF clock >= MaxAge THEN clock - MaxAge + 2 ELSE 1
<1>1. KevInv /\ [Kev!Next]_Kev!vars =>
          [\A p \in Proc :
              pc[p] # "fallback" /\ loaded'[p] # loaded[p] /\ Kev!IsFeed(loaded'[p]) =>
                  loaded'[p][2] >= published[oldest]]_Kev!vars
  <2> SUFFICES ASSUME KevInv, Kev!Next, NEW p \in Proc, pc[p] # "fallback",
                      loaded'[p] # loaded[p], Kev!IsFeed(loaded'[p])
               PROVE  loaded'[p][2] >= published[oldest]
    BY DEF Kev!vars
  <2>1. /\ KevTypes /\ LoadInv /\ PublishedInv /\ clock \in Nat /\ mtime \in 0 .. clock
        /\ MaxAge \in Nat \ {0} /\ loaded \in [Proc -> Held] /\ published \in Seq(Nat)
        /\ Len(published) = clock + 1 /\ payload[p] \in Kev!Known \cup {Kev!None}
    BY DEF KevInv, KevTypes, Kev!KevCatalogAssumption
  <2>2. PICK doc \in Kev!Known \cup {Kev!None} :
            Kev!Finish(p, doc) /\ (doc = payload[p] \/ (pc[p] = "read" /\ doc \in Kev!Decode))
    <3>1. CASE \E q \in Proc \ {p} : Kev!Step(q) \/ Kev!Crash(q)
      BY <2>1, <3>1
      DEF Kev!Step, Kev!Start, Kev!ReadFresh, Kev!Download, Kev!Open, Kev!Write,
          Kev!WriteError, Kev!Fallback, Kev!Crash, Kev!Finish
    <3>2. CASE Kev!Step(p) \/ Kev!Crash(p)
      <4>1. ~Kev!IsFeed(Kev!None)
        BY DEF Kev!IsFeed, Kev!None
      <4>2. CASE Kev!Start(p) \/ Kev!Download(p) \/ Kev!Open(p) \/ Kev!Crash(p)
        BY <2>1, <4>1, <4>2 DEF Kev!Start, Kev!Download, Kev!Open, Kev!Crash
      <4>3. CASE Kev!ReadFresh(p)
        BY <4>3, DecodeFacts DEF Kev!ReadFresh
      <4>4. CASE Kev!Write(p) \/ Kev!WriteError(p)
        BY <2>1, <4>4 DEF Kev!Write, Kev!WriteError
      <4> QED
        BY <3>2, <4>2, <4>3, <4>4 DEF Kev!Step, Kev!Fallback
    <3>3. CASE Kev!Publish \/ Kev!Tick
      BY <3>3 DEF Kev!Publish, Kev!Tick
    <3> QED
      BY <3>1, <3>2, <3>3 DEF Kev!Next
  <2>3. loaded'[p] = doc
    <3>1. loaded'[p] = Kev!Outcome(doc)
      BY <2>1, <2>2 DEF Kev!Finish
    <3> QED
      BY <2>1, <3>1, DocFacts
  <2>4. \E t \in 0 .. clock : Recent(doc, t) /\ clock - t < MaxAge
    <3>1. CASE doc = payload[p]
      BY <2>1, <3>1 DEF LoadInv
    <3>2. CASE pc[p] = "read" /\ doc \in Kev!Decode
      BY <2>1, <3>2, DecodeFacts DEF LoadInv
    <3> QED
      BY <2>2, <3>1, <3>2
  <2>5. PICK t \in 0 .. clock : doc[2] >= published[t + 1] /\ clock - t < MaxAge
    BY <2>3, <2>4 DEF Recent
  <2>6. oldest - 1 \in 0 .. clock /\ oldest - 1 <= t /\ (oldest - 1) + 1 = oldest
    BY <2>1, <2>5
  <2>7. published[oldest] <= published[t + 1]
    BY <2>1, <2>6 DEF PublishedInv
  <2>8. published[oldest] \in Nat /\ published[t + 1] \in Nat /\ doc[2] \in Int
    BY <2>1, <2>3, <2>5, <2>6 DEF Kev!Known, Kev!Feed, Kev!IsFeed, Kev!OtherJSON, Kev!None,
                                  Kev!KevCatalogAssumption
  <2> QED
    BY <2>3, <2>5, <2>7, <2>8
<1> QED
  BY <1>1, KevInvariance, PTL DEF Kev!Spec, Kev!Current

=============================================================================
