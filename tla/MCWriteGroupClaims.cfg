\* Runs of all three workflows, two repositories that claim one appId,
\* an edit by hand between runs; nothing else fails.
SPECIFICATION Spec
CONSTANTS
    Repos = {r1, r2}
    Certs = {c1}
    Actors = {op}
    NoRepo = NoRepo
    NoActor = NoActor
    MaxFrom = 1
    Apps = {a1}
    NoApp = NoApp
    NoCert = NoCert
    Issuers = {"issuer"}
    SelfRevokers = {"revocation"}
    PrivRevokers = {"privileged"}
    MaxRetries = 2
    MaxEdits = 1
    Serialized = FALSE
    QuietEdits = TRUE
    Configs <- OneConfig
    MaxMishaps = 0
SYMMETRY Symmetry
PROPERTIES
    FirstComeFirstServed
    AuditTrailKept
    ImplementsSite
