\* Two ledgers, one certificate with either of two revocation times;
\* one failure, re-run or commit by hand.
SPECIFICATION Spec
CONSTANTS
    Repos = {r1}
    Certs = {c1}
    Actors = {}
    NoRepo = NoRepo
    NoActor = NoActor
    MaxFrom = 1
    Apps = {a1, a2}
    Configs <- SomeConfigs
    MaxMishaps = 1
INVARIANTS
    TypeOK
    CrlSound
PROPERTIES
    NeverUnlisted
    ListedAsRecorded
