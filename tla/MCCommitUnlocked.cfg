\* The concurrency group is gone: writers of all kinds overlap, and edits.
SPECIFICATION CommitFairSpec
CONSTANTS
    Repos = {r1}
    Certs = {c1, c2}
    Actors = {admin}
    NoRepo = NoRepo
    NoActor = NoActor
    MaxFrom = 0
    Apps = {a1}
    NoApp = NoApp
    NoCert = NoCert
    Issuers = {i1}
    SelfRevokers = {s1}
    PrivRevokers = {p1}
    MaxRetries = 2
    MaxEdits = 1
    Serialized = FALSE
    QuietEdits = FALSE
INVARIANTS
    CommitTypeOK
    ReportedIsCommitted
PROPERTIES
    ImplementsLog
    EachCallCounts
    WriterFinishes
