\* Two requests, a verdict that quotes a marker, no fault.
SPECIFICATION Spec
CONSTANTS
    Repos = {r1}
    Certs = {c1, c2}
    Actors = {}
    NoRepo = NoRepo
    NoActor = NoActor
    MaxFrom = 0
    Apps = {a1}
    NoApp = NoApp
    NoCert = NoCert
    Issuers = {bot}
    SelfRevokers = {}
    PrivRevokers = {}
    MaxRetries = 2
    MaxEdits = 0
    Serialized = TRUE
    QuietEdits = FALSE
    Bot = bot
    Nonces = {n1, n2}
    Strays = {}
    NoNonce = NoNonce
    MaxIssues = 2
    IssuePage = 2
    CommentPage = 2
    Validity = 0
    MaxTime = 0
    MaxFaults = 0
    MaxActs = 3
INVARIANTS
    NonceIssueScoped
