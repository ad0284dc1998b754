\* Two requests, perhaps for one appId and one repository, one fault.
SPECIFICATION ContentionSpec
CONSTANTS
    Repos = {r1, r2}
    Certs = {c1, c2, c3}
    Actors = {}
    NoRepo = NoRepo
    NoActor = NoActor
    MaxFrom = 0
    Apps = {a1}
    NoApp = NoApp
    NoCert = NoCert
    Issuers = {bot}
    SelfRevokers = {}
    PrivRevokers = {}
    MaxRetries = 2
    MaxEdits = 0
    Serialized = TRUE
    QuietEdits = FALSE
    Bot = bot
    Nonces = {n1, n2}
    Strays = {x1}
    NoNonce = NoNonce
    MaxIssues = 2
    IssuePage = 2
    CommentPage = 2
    Validity = 0
    MaxTime = 0
    MaxFaults = 1
    MaxActs = 2
SYMMETRY Symmetry
INVARIANTS
    ProvenControl
    DeliveredIsRecorded
    DuplicatesOnlyByFault
    ChallengeOnce
