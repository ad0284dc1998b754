\* One request, commits between the two reads, no fault.
SPECIFICATION Spec
CONSTANTS
    Repos = {r1, r2}
    Certs = {c1, c2}
    Actors = {}
    NoRepo = NoRepo
    NoActor = NoActor
    MaxFrom = 0
    Apps = {a1}
    NoApp = NoApp
    NoCert = NoCert
    Issuers = {bot}
    SelfRevokers = {}
    PrivRevokers = {}
    MaxRetries = 2
    MaxEdits = 0
    Serialized = TRUE
    QuietEdits = FALSE
    Bot = bot
    Nonces = {n1}
    Strays = {}
    NoNonce = NoNonce
    MaxIssues = 1
    IssuePage = 1
    CommentPage = 2
    Validity = 0
    MaxTime = 0
    MaxFaults = 0
    MaxActs = 2
INVARIANTS
    SameSnapshot
