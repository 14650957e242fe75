\* Two commands, two NVD queries, two timestamps.
CONSTANTS
    Rules <- SomeRules
    Machines <- SomeMachines
    Commands <- SomeCommands
    Query = {"CVE-1", "log4j"}
    Keyword = {"log4j"}
    Scores = {0, 98}
    WebPages <- SomePages
    Stamps = {t1, t2}
    MaxRuns = 2
    MaxChanges = 1
SPECIFICATION Spec
INVARIANTS
    TypeOK
    ReportAgrees
PROPERTIES
    LookupsHonest
    ReportsKept
