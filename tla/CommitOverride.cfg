\* The concurrency group holds, an org member edits a ledger during a run.
SPECIFICATION CommitSpec
CONSTANTS
    Repos = {r1, r2}
    Certs = {c1, c2}
    Actors = {admin}
    NoRepo = NoRepo
    NoActor = NoActor
    MaxFrom = 1
    Apps = {a1}
    NoApp = NoApp
    NoCert = NoCert
    Issuers = {i1}
    SelfRevokers = {s1}
    PrivRevokers = {p1}
    MaxRetries = 2
    MaxEdits = 1
    Serialized = TRUE
    QuietEdits = FALSE
PROPERTIES
    FirstComeFirstServed
