\* One ledger file, nothing fails.
SPECIFICATION Spec
CONSTANTS
    Repos = {r1}
    Certs = {c1}
    Actors = {}
    NoRepo = NoRepo
    NoActor = NoActor
    MaxFrom = 0
    Apps = {a1}
    Configs <- SomeConfigs
    MaxMishaps = 0
PROPERTIES
    NoCrlRunDropped
