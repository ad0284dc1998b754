\* Requests for two certificates of one app, an officer, one fault.
SPECIFICATION Spec
CONSTANTS
    c1 = c1
    c2 = c2
    Repos = {r1}
    Certs = {c1, c2}
    Actors = {admin}
    NoRepo = NoRepo
    NoActor = NoActor
    MaxFrom = 0
    Apps <- OneApp
    NoApp <- NoName
    NoCert = NoCert
    Issuers = {}
    SelfRevokers = {bot}
    PrivRevokers = {p1}
    MaxRetries = 2
    MaxEdits = 1
    Serialized = TRUE
    QuietEdits = FALSE
    Bot = bot
    Requests <- SomeRequests
    NoBlock = NoBlock
    CommonName <- Names
    MaxIssues = 2
    IssuePage = 1
    MaxFaults = 1
    MaxActs = 3
    Second = 4
    LeafValidity = 3
    MinRSABits = 3072
INVARIANTS
    TypeOK
    RevokedIsTrue
PROPERTIES
    HolderOrOfficer
    HolderServed
