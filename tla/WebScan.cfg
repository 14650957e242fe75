\* Two workers per level: the third path of a deep scan queues.
CONSTANTS
    device = device
    listed = listed
    byName = byName
    byUrl = byUrl
    outside = outside
    admin = admin
    config = config
    debug = debug
    Name <- MCName
    Addr <- MCAddr
    Port <- MCPort
    Target <- MCTarget
    Urls <- MCUrls
    Answers <- MCAnswers
    Locations <- MCLocations
    Path <- MCPath
    Configs <- MCConfigs
    Concurrency = 2
    MaxRedirects = 2
SPECIFICATION FairSpec
INVARIANTS
    TypeOK
    OnlyAuthorised
    ReachedIsReported
    NothingLeftOpen
PROPERTIES
    WebAuditEnds
