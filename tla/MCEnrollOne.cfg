\* Every path of a request, a second one crowding the page of the poll.
SPECIFICATION OneSpec
CONSTANTS
    Repos = {r1}
    Certs = {c1, c2, c3}
    Actors = {}
    NoRepo = NoRepo
    NoActor = NoActor
    MaxFrom = 0
    Apps = {a1}
    NoApp = NoApp
    NoCert = NoCert
    Issuers = {bot}
    SelfRevokers = {}
    PrivRevokers = {}
    MaxRetries = 2
    MaxEdits = 1
    Serialized = TRUE
    QuietEdits = FALSE
    Bot = bot
    Nonces = {n1, n2}
    Strays = {}
    NoNonce = NoNonce
    MaxIssues = 2
    IssuePage = 1
    CommentPage = 3
    Validity = 0
    MaxTime = 1
    MaxFaults = 1
    MaxActs = 2
INVARIANTS
    TypeOK
    ClosedIsServed
PROPERTIES
    VerdictIsFinal
    RequestResolved
