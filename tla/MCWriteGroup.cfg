\* One certificate; one failure or commit by hand of each kind.
SPECIFICATION Spec
CONSTANTS
    Repos = {r1}
    Certs = {c1}
    Actors = {op}
    NoRepo = NoRepo
    NoActor = NoActor
    MaxFrom = 0
    Apps = {a1}
    NoApp = NoApp
    NoCert = NoCert
    Issuers = {"issuer"}
    SelfRevokers = {"revocation"}
    PrivRevokers = {}
    MaxRetries = 2
    MaxEdits = 1
    Serialized = FALSE
    QuietEdits = FALSE
    Configs <- OneConfig
    MaxMishaps = 1
INVARIANTS
    TypeOK
PROPERTIES
    ImplementsGuarded
    ImplementsSite
